---- MODULE Spec2Model ----
(***************************************************************************)
(* Model of the Mirakl marketplace integration: the retry executor and the *)
(* client operations of services/miraklService.js, and the order ingestion *)
(* job of jobs/marketplaceJobs.js with the marketplace_orders table.       *)
(***************************************************************************)
EXTENDS Integers, Sequences, FiniteSets, TLC

VARIABLES remoteOrders, client, job, marketplace_orders, marketplace_sync_log, now, faults, scheduler, marketplace_shipments, products

(***************************************************************************)
(* Bounds of the model.                                                    *)
(***************************************************************************)
MaxFullPages == 2
MaxRetriesArg == 3
MaxHint == 1
MaxRuns == 2
MaxFaults == 1
MaxRemoteOrders == 1
MaxWatermarkRuns == 3
MaxBatchOrders == 2
MaxProducts == 1
MaxClock == 2
MaxCents == 120
MaxOffers == 2
MaxStarts == 2

(***************************************************************************)
(* Program constants.                                                      *)
(***************************************************************************)
maxRetriesDefault == 3
baseDelay == 1000
maxPerPage == 100

Procs == {1, 2}

\* error.response?.status is undefined for a failure that carries no response
NoStatus == 0
\* the retry-after header is absent
NoHint == -1

\* The statuses the remote may answer a failed request with: the 4xx that
\* handleMiraklError names, one of the 5xx it names and one it does not, and
\* NoStatus for a failure without a response (network, timeout).
Statuses == {400, 401, 403, 404, 422, 429, 500, 501, NoStatus}

ClientOps == {"syncOffers", "acceptOrder", "createShipment", "getOfferBySku", "updateInventory"}

OpenStates == {"WAITING_ACCEPTANCE", "SHIPPING", "SHIPPED", "TO_COLLECT"}
OrderStates == OpenStates \cup {"RECEIVED", "CLOSED", "REFUSED", "CANCELED"}

Min(a, b) == IF a < b THEN a ELSE b
Max(a, b) == IF a > b THEN a ELSE b
CeilDiv(a, b) == (a + b - 1) \div b

(***************************************************************************)
(* Errors.  An axios failure keeps the response it came with; an Error     *)
(* made by handleMiraklError has a message only.  req names the request    *)
(* whose failure the error object was made for.                            *)
(***************************************************************************)
NoError == [kind |-> "none", status |-> NoStatus, retryAfter |-> NoHint, req |-> 0]

AxiosError(status, hint, req) ==
  [kind |-> "axios", status |-> status, retryAfter |-> hint, req |-> req]

\* handleMiraklError: the message is chosen by the status of the failure
ErrorKind(status) ==
  CASE status = 401 -> "Mirakl authentication failed"
    [] status = 403 -> "Mirakl access denied"
    [] status = 404 -> "Mirakl resource not found"
    [] status = 429 -> "Mirakl rate limit exceeded"
    [] status = 400 -> "Mirakl bad request"
    [] status = 422 -> "Mirakl validation error"
    [] status \in {500, 502, 503, 504} -> "Mirakl server error"
    [] OTHER -> "Mirakl operation failed"

handleMiraklError(error) ==
  [kind |-> ErrorKind(error.status), status |-> NoStatus, retryAfter |-> NoHint,
   req |-> error.req]

(***************************************************************************)
(* retryWithBackoff: what the catch block decides for the failure of       *)
(* attempt number attempt.                                                 *)
(***************************************************************************)
ExponentialWait(attempt) == (2 ^ attempt) * baseDelay

\* mutant: the last retry is given up one attempt early
RetriesRateLimitEarly(error, attempt, maxRetries) ==
  error.status = 429 /\ attempt + 1 < maxRetries

\* status === 429 && attempt < maxRetries
RetriesRateLimit(error, attempt, maxRetries) ==
  error.status = 429 /\ attempt < maxRetries

\* mutant: a server error is retried after the last attempt too
RetriesServerErrorPastLast(error, attempt, maxRetries) ==
  error.status >= 500 /\ error.status < 600 /\ attempt <= maxRetries

\* mutant: the lower bound of the retried class is 400
RetriesClientError(error, attempt, maxRetries) ==
  error.status >= 400 /\ error.status < 600 /\ attempt < maxRetries

\* status >= 500 && status < 600 && attempt < maxRetries
RetriesServerError(error, attempt, maxRetries) ==
  error.status >= 500 /\ error.status < 600 /\ attempt < maxRetries

\* mutant: a retryable failure is retried whatever the number of the attempt
ShouldRetryUncounted(error, attempt, maxRetries) ==
  error.status = 429 \/ (error.status >= 500 /\ error.status < 600)

ShouldRetry(error, attempt, maxRetries) ==
  \/ RetriesRateLimit(error, attempt, maxRetries)
  \/ RetriesServerError(error, attempt, maxRetries)

\* mutant: the hint is used after a server error too
WaitTimeHintAlways(error, attempt) ==
  IF error.retryAfter # NoHint
    THEN error.retryAfter * 1000
    ELSE ExponentialWait(attempt)

\* retryAfter ? parseInt(retryAfter) * 1000 : Math.pow(2, attempt) * baseDelay
WaitTime(error, attempt) ==
  IF error.status = 429 /\ error.retryAfter # NoHint
    THEN error.retryAfter * 1000
    ELSE ExponentialWait(attempt)

(***************************************************************************)
(* What the function handed to retryWithBackoff throws when its request    *)
(* fails.  The five client operations catch the failure inside the         *)
(* function and rethrow what handleMiraklError makes of it; the page       *)
(* function of fetchOrders has no catch of its own.                        *)
(***************************************************************************)
ThrownByFn(op, error) ==
  IF op \in ClientOps THEN handleMiraklError(error) ELSE error

(***************************************************************************)
(* The remote marketplace.  An order is listed by GET /api/orders when its *)
(* state is one of order_state_codes and, with start_update_date given,    *)
(* when it was updated at or after that date.                              *)
(***************************************************************************)
NoDate == -1
Missing == -1

Listed(order, since) ==
  /\ order.order_state \in OpenStates
  /\ since = NoDate \/ order.updated >= since

MatchingOrders(since) == SelectSeq(remoteOrders, LAMBDA o : Listed(o, since))

\* the page of len orders at offset of the listing
Page(listing, offset, len) == SubSeq(listing, offset + 1, offset + len)

HonestLen(listing, offset) == Max(0, Min(maxPerPage, Len(listing) - offset))

\* the answer the pagination contract asks for
ContractAnswer(listing, offset) ==
  [len |-> HonestLen(listing, offset), total |-> Len(listing)]

\* The answers the remote may give to a page request: the page the
\* pagination contract asks for, or a shorter one, or one without an orders
\* field, each with a total_count that is right, absent, or too large.
PageAnswers(listing, offset) ==
  LET h == HonestLen(listing, offset)
      n == Len(listing)
  IN { [len |-> l, total |-> t] :
         l \in {h, 0, Missing} \cup (IF h > 0 THEN {h - 1} ELSE {}),
         t \in {n, Missing, n + maxPerPage} }

\* orders: response.data.orders || [], totalCount: response.data.total_count || 0
OrdersOf(listing, offset, answer) ==
  IF answer.len = Missing THEN << >> ELSE Page(listing, offset, answer.len)

TotalCountOf(answer) == IF answer.total = Missing THEN 0 ELSE answer.total

(***************************************************************************)
(* fetchOrders: the loop condition computed after a page.                  *)
(***************************************************************************)
\* mutant: the offset advances by the number of items received
NextOffsetByLength(offset, orders) == offset + Len(orders)

NextOffset(offset, orders) == offset + maxPerPage

\* mutant: a page is requested at an offset equal to the total count
HasMoreInclusive(offset, totalCount, orders) ==
  offset <= totalCount /\ Len(orders) = maxPerPage

\* mutant: the total count is not looked at
HasMoreByLengthOnly(offset, totalCount, orders) ==
  Len(orders) = maxPerPage

\* mutant: the length of the page is not looked at
HasMoreByTotalOnly(offset, totalCount, orders) ==
  offset < totalCount

HasMore(offset, totalCount, orders) ==
  offset < totalCount /\ Len(orders) = maxPerPage

\* jobs/scheduler.js as the module is loaded: let inventorySyncTask = null;
\* let orderPullTask = null; no task of node-cron exists.  A task is named by
\* its place in tasks, 0 is null.
\* apiConfigured is !!process.env.MIRAKL_API_KEY, calls counts the calls of
\* startScheduler.
NoScheduler ==
  [inventorySyncTask |-> 0, orderPullTask |-> 0, tasks |-> << >>,
   apiConfigured |-> FALSE, calls |-> 0]

\* The table of the products: mirakl_sku is "NULL" for a product that is
\* not mapped to the marketplace.  n products, all of them mapped and none
\* of them synced yet.
ProductsWith(n) ==
  [i \in 1 .. n |->
     [id |-> i, mirakl_sku |-> "sku", price |-> 1999, quantity |-> 3,
      last_synced_at |-> NoDate]]

\* what a step of a client call leaves alone, but for the count of faults
env == << remoteOrders, job, marketplace_orders, marketplace_sync_log, now, scheduler, marketplace_shipments, products >>

(***************************************************************************)
(* One call of a client operation.  tried and waits are the log of the     *)
(* running retryWithBackoff invocation: the status each of its attempts    *)
(* ended with, and the delay(ms) calls it made.  requested is the log of   *)
(* the offsets of the page requests the call has sent, received the        *)
(* lengths of the pages it got, and contract tells whether every page was  *)
(* answered as the pagination contract says.                               *)
(***************************************************************************)
Pending == -1
Ok == 200

\* A handler invocation that has not started.  handler names the function
\* that runs (pullOrdersJob, syncInventoryJob or a route), the other fields
\* are its locals; upserted counts the upserts of the run that the database
\* executed, httpStatus is the status a route answered with.
IdleJob ==
  [pc |-> "idle", syncLogId |-> 0, lastUpdated |-> NoDate, idx |-> 0, isUpdate |-> FALSE,
   importedCount |-> 0, updatedCount |-> 0, closedAt |-> NoDate, success |-> "none",
   error |-> "none", handler |-> "none", products |-> << >>, id |-> 0, upserted |-> 0,
   httpStatus |-> 0]

IdleClient ==
  [op |-> "none", pc |-> "idle", maxRetries |-> 0, attempt |-> 0,
   lastUpdated |-> NoDate, offset |-> 0, allOrders |-> << >>, hasMore |-> FALSE,
   outcome |-> "none", value |-> 0, returned |-> << >>, error |-> NoError,
   totalCount |-> 0, arg |-> 0, body |-> << >>,
   tried |-> << >>, waits |-> << >>, requested |-> << >>, received |-> << >>,
   contract |-> TRUE]

\* mutant: a retry starts the pagination again
SendFromStart(c) ==
  [c EXCEPT !.pc = "inflight", !.tried = Append(@, Pending),
            !.requested = IF c.op = "fetchOrders"
                            THEN Append(@, IF c.attempt > 1 THEN 0 ELSE c.offset)
                            ELSE @]

\* the request of the running attempt is sent
Send(c) ==
  [c EXCEPT !.pc = "inflight", !.tried = Append(@, Pending),
            !.requested = IF c.op = "fetchOrders" THEN Append(@, c.offset) ELSE @]

\* the request of the running attempt ended with status
Ended(c, status) == [c EXCEPT !.tried = [@ EXCEPT ![Len(@)] = status]]

\* let offset = 0
StartOffset(c) == 0

\* for (let attempt = 1; attempt <= maxRetries; attempt++) { return await fn() }
\* entered with attempt = 1: the first request is sent, or, when maxRetries
\* is below 1, the loop body never runs and the call returns undefined
StartCall(c, op, m, since) ==
  LET fresh == [IdleClient EXCEPT !.op = op, !.maxRetries = m, !.lastUpdated = since,
                                  !.attempt = 1, !.hasMore = (op = "fetchOrders"),
                                  !.offset = StartOffset(c)]
  IN IF 1 <= m
       THEN Send(fresh)
       ELSE [fresh EXCEPT !.pc = "done", !.outcome = "undefined"]

CallClientOp(p, op) ==
  /\ client[p].pc = "idle"
  /\ client' = [client EXCEPT ![p] = StartCall(@, op, maxRetriesDefault, NoDate)]
  /\ UNCHANGED << env, faults >>

CallFetchOrders(p, since) ==
  /\ client[p].pc = "idle"
  /\ client' = [client EXCEPT ![p] = StartCall(@, "fetchOrders", maxRetriesDefault, since)]
  /\ UNCHANGED << env, faults >>

CallRetryWithBackoff(p, m) ==
  /\ client[p].pc = "idle"
  /\ client' = [client EXCEPT ![p] = StartCall(@, "retryWithBackoff", m, NoDate)]
  /\ UNCHANGED << env, faults >>

\* return await fn(): the request of a client operation, or of a function
\* given to retryWithBackoff directly, succeeds; the call returns the data
\* of that attempt
AfterSuccess(c) ==
  [Ended(c, Ok) EXCEPT !.pc = "done", !.outcome = "returned", !.value = c.attempt]

ResponseOk(p) ==
  /\ client[p].pc = "inflight"
  /\ client[p].op # "fetchOrders"
  /\ client' = [client EXCEPT ![p] = AfterSuccess(@)]
  /\ UNCHANGED << env, faults >>

\* fetchOrders, lines 242-260: a page arrived
AfterPage(c, orders, totalCount) ==
  LET all == c.allOrders \o orders
      off == NextOffset(c.offset, orders)
      more == HasMore(off, totalCount, orders)
      d == [Ended(c, Ok) EXCEPT !.allOrders = all, !.offset = off, !.hasMore = more,
                                !.received = Append(@, Len(orders)),
                                !.totalCount = totalCount]
  IN IF more
       THEN [d EXCEPT !.pc = "pagedelay"]
       ELSE [d EXCEPT !.pc = "done", !.outcome = "returned", !.returned = all]

PageOk(p) ==
  /\ client[p].pc = "inflight"
  /\ client[p].op = "fetchOrders"
  /\ LET listing == MatchingOrders(client[p].lastUpdated)
         offset == client[p].offset
     IN \E answer \in PageAnswers(listing, offset) :
          client' = [client EXCEPT ![p] =
                       [AfterPage(@, OrdersOf(listing, offset, answer), TotalCountOf(answer))
                          EXCEPT !.contract = @ /\ answer = ContractAnswer(listing, offset)]]
  /\ UNCHANGED << env, faults >>

\* mutant: the catch returns the pages fetched so far
FetchOrdersCatchPartial(c, error) ==
  [c EXCEPT !.pc = "done", !.outcome = "returned", !.returned = c.allOrders]

\* fetchOrders, lines 262-265: the catch of fetchOrders rethrows what
\* handleMiraklError makes of the failure; nothing is returned
FetchOrdersCatch(c, error) ==
  [c EXCEPT !.pc = "done", !.outcome = "threw", !.error = handleMiraklError(error)]

\* retryWithBackoff, lines 57-84: the catch block
AfterFailure(c, status, hint) ==
  LET error == ThrownByFn(c.op, AxiosError(status, hint, c.attempt))
      d == Ended(c, status)
  IN IF ShouldRetry(error, c.attempt, c.maxRetries)
       THEN [d EXCEPT !.pc = "backoff", !.error = error,
                      !.waits = Append(@, WaitTime(error, c.attempt))]
       ELSE IF c.op = "fetchOrders"
              THEN FetchOrdersCatch(d, error)
              ELSE [d EXCEPT !.pc = "done", !.outcome = "threw", !.error = error]

\* error.response.headers['retry-after']: the remote may send the header
\* with a 429 and with a 5xx; with the statuses that are never retried the
\* header is never looked at
Hints(status) ==
  IF status = 429 \/ (status >= 500 /\ status < 600)
    THEN {NoHint} \cup (0 .. MaxHint)
    ELSE {NoHint}

\* the request in flight fails with one of the given statuses
ResponseFailWith(p, statuses) ==
  /\ client[p].pc = "inflight"
  /\ \E status \in statuses : \E hint \in Hints(status) :
       client' = [client EXCEPT ![p] = AfterFailure(@, status, hint)]
  /\ UNCHANGED env

ResponseFail(p) == ResponseFailWith(p, Statuses)

\* await this.delay(waitTime); continue: the next attempt sends the request again
BackoffElapsed(p) ==
  /\ client[p].pc = "backoff"
  /\ client' = [client EXCEPT ![p] =
                  Send([@ EXCEPT !.attempt = @ + 1, !.error = NoError])]
  /\ UNCHANGED << env, faults >>

\* await this.delay(200): the loop of fetchOrders calls retryWithBackoff for
\* the next page
PageDelayElapsed(p) ==
  /\ client[p].pc = "pagedelay"
  /\ client' = [client EXCEPT ![p] =
                  Send([@ EXCEPT !.attempt = 1, !.totalCount = 0,
                                 !.tried = << >>, !.waits = << >>])]
  /\ UNCHANGED << env, faults >>

\* The caller has the outcome of the call and may call again: the locals
\* of the ended call are gone.
Return(p) ==
  /\ client[p].pc = "done"
  /\ client' = [client EXCEPT ![p] = IdleClient]
  /\ UNCHANGED << env, faults >>

vars == << remoteOrders, client, job, marketplace_orders, marketplace_sync_log, now, scheduler, marketplace_shipments, products, faults >>

(***************************************************************************)
(* The client against a remote that holds n open orders: one caller makes  *)
(* calls of the client operations, of fetchOrders and of retryWithBackoff, *)
(* one after the other.                                                    *)
(***************************************************************************)
RemoteWith(n) ==
  [i \in 1 .. n |-> [order_id |-> i, order_state |-> "WAITING_ACCEPTANCE", updated |-> 0]]

\* the sizes around the page boundaries, up to MaxFullPages full pages
RemoteSizes ==
  { maxPerPage * k + d : k \in 0 .. MaxFullPages, d \in {0, 1, 50} }

Caller == 1

InitClient ==
  /\ \E n \in RemoteSizes : remoteOrders = RemoteWith(n)
  /\ client = [p \in Procs |-> IdleClient]
  /\ job = [p \in Procs |-> IdleJob]
  /\ marketplace_orders = << >>
  /\ marketplace_sync_log = << >>
  /\ now = 0
  /\ scheduler = NoScheduler
  /\ marketplace_shipments = << >>
  /\ products = ProductsWith(MaxProducts)
  /\ faults = 0

NextClient ==
  \/ \E op \in ClientOps : CallClientOp(Caller, op)
  \/ CallFetchOrders(Caller, NoDate)
  \/ \E m \in 0 .. MaxRetriesArg : CallRetryWithBackoff(Caller, m)
  \/ ResponseOk(Caller)
  \/ PageOk(Caller)
  \/ ResponseFail(Caller) /\ UNCHANGED faults
  \/ BackoffElapsed(Caller)
  \/ PageDelayElapsed(Caller)
  \/ Return(Caller)

SpecClient == InitClient /\ [][NextClient]_vars

(***************************************************************************)
(* The storage.  marketplace_orders and marketplace_sync_log are the       *)
(* tables of migrations/add_marketplace_tables.sql, a row's id being its   *)
(* position.  Of a row of marketplace_orders the model keeps the key, the  *)
(* state and the two timestamps of the local actions; of a row of the sync *)
(* log the type, the status, the completion time, the count and the        *)
(* message.                                                                *)
(***************************************************************************)
OrderRow(order) ==
  [mirakl_order_id |-> order.order_id, order_state |-> order.order_state,
   accepted_at |-> NoDate, shipped_at |-> NoDate]

\* a row of marketplace_shipments, as the ship route inserts it
ShipmentRow(id) == [marketplace_order_id |-> id]

\* SELECT ... FROM products WHERE mirakl_sku IS NOT NULL ORDER BY id
MappedProducts(table) ==
  LET rows == SelectSeq(table, LAMBDA row : row.mirakl_sku # "NULL")
  IN [i \in 1 .. Len(rows) |->
        [id |-> rows[i].id, mirakl_sku |-> rows[i].mirakl_sku,
         price |-> rows[i].price, quantity |-> rows[i].quantity]]

\* products.map(p => p.id)
ProductIds(rows) == { rows[i].id : i \in 1 .. Len(rows) }

\* mutant: every product that has a Mirakl SKU is marked as synced
SyncedProductsBySku(table, rows, date) ==
  [i \in 1 .. Len(table) |->
     IF table[i].mirakl_sku # "NULL"
       THEN [table[i] EXCEPT !.last_synced_at = date]
       ELSE table[i]]

\* UPDATE products SET last_synced_at = $1 WHERE id = ANY($2)
SyncedProducts(table, rows, date) ==
  [i \in 1 .. Len(table) |->
     IF table[i].id \in ProductIds(rows)
       THEN [table[i] EXCEPT !.last_synced_at = date]
       ELSE table[i]]

HasOrder(table, id) == \E i \in 1 .. Len(table) : table[i].mirakl_order_id = id

\* mutant: a plain INSERT, and no unique key on mirakl_order_id
UpsertAlwaysInserts(table, row) == Append(table, row)

\* mutant: on a conflict the stored row is replaced by the new one
UpsertReplacesRow(table, row) ==
  IF HasOrder(table, row.mirakl_order_id)
    THEN [i \in 1 .. Len(table) |->
            IF table[i].mirakl_order_id = row.mirakl_order_id THEN row ELSE table[i]]
    ELSE Append(table, row)

\* mutant: the state of an order that was accepted locally is kept
UpsertKeepsLocalState(table, row) ==
  IF HasOrder(table, row.mirakl_order_id)
    THEN [i \in 1 .. Len(table) |->
            IF table[i].mirakl_order_id = row.mirakl_order_id /\ table[i].accepted_at = NoDate
              THEN [table[i] EXCEPT !.order_state = row.order_state]
              ELSE table[i]]
    ELSE Append(table, row)

\* INSERT INTO marketplace_orders ... ON CONFLICT (mirakl_order_id) DO UPDATE
\* SET order_state = EXCLUDED.order_state, ...
Upsert(table, row) ==
  IF HasOrder(table, row.mirakl_order_id)
    THEN [i \in 1 .. Len(table) |->
            IF table[i].mirakl_order_id = row.mirakl_order_id
              THEN [table[i] EXCEPT !.order_state = row.order_state]
              ELSE table[i]]
    ELSE Append(table, row)

\* the sync_type a handler gives its sync-log entry
SyncType(handler) == IF handler = "syncInventoryJob" THEN "offers" ELSE "orders"

\* mutant: the entry is inserted as pending
RunningLogPending(type) ==
  [sync_type |-> type, status |-> "pending", completed_at |-> NoDate,
   records_processed |-> 0, error_message |-> "none"]

\* INSERT INTO marketplace_sync_log (sync_type, status, started_at)
\* VALUES ($1, 'running', $3)
RunningLog(type) ==
  [sync_type |-> type, status |-> "running", completed_at |-> NoDate,
   records_processed |-> 0, error_message |-> "none"]

\* mutant: the entries closed as failed count too
LastCompleted(log, type) ==
  LET times == { log[i].completed_at : i \in { k \in 1 .. Len(log) :
                   log[k].sync_type = type /\ log[k].status # "running" } }
  IN IF times = {} THEN NoDate ELSE CHOOSE t \in times : \A u \in times : u <= t

\* SELECT completed_at FROM marketplace_sync_log WHERE sync_type = 'orders'
\* AND status = 'success' ORDER BY completed_at DESC LIMIT 1
LastSuccess(log, type) ==
  LET times == { log[i].completed_at : i \in { k \in 1 .. Len(log) :
                   log[k].sync_type = type /\ log[k].status = "success" } }
  IN IF times = {} THEN NoDate ELSE CHOOSE t \in times : \A u \in times : u <= t

\* a query of the pool succeeds, or fails while the model has faults left
DbOutcomes == IF faults < MaxFaults THEN {TRUE, FALSE} ELSE {TRUE}

Charged(ok) == IF ok THEN faults ELSE faults + 1

(***************************************************************************)
(* pullOrdersJob.  A step is the execution of the query the job awaits,    *)
(* followed by the job's code up to its next await.                        *)
(***************************************************************************)
StartedRuns ==
  Len(marketplace_sync_log) + Cardinality({ p \in Procs : job[p].pc = "insertLog" })

\* pullOrdersJob is invoked: the INSERT of its sync-log entry is sent
StartJob(p) ==
  /\ job[p].pc = "idle" /\ client[p].pc = "idle"
  /\ job' = [job EXCEPT ![p] = [IdleJob EXCEPT !.pc = "insertLog",
                                               !.handler = "pullOrdersJob"]]
  /\ UNCHANGED << remoteOrders, client, marketplace_orders, marketplace_sync_log, now, scheduler, marketplace_shipments, products, faults >>

\* mutant: the catch closes the entry as success
CaughtReportsSuccess(j, message) ==
  [j EXCEPT !.pc = "closeSuccess", !.closedAt = now]

\* the catch of the job: the UPDATE that closes the entry as failed is sent
\* when the entry exists, else the job returns its failure at once
Caught(j, message) ==
  IF j.syncLogId # 0
    THEN [j EXCEPT !.pc = "closeFailed", !.error = message, !.closedAt = now]
    ELSE [j EXCEPT !.pc = "done", !.error = message, !.success = "false"]

\* lines 137-152: the entry is inserted as running; the watermark query is sent
InsertLog(p) ==
  /\ job[p].pc = "insertLog"
  /\ \E ok \in DbOutcomes :
       /\ faults' = Charged(ok)
       /\ IF ok
            THEN /\ marketplace_sync_log' =
                      Append(marketplace_sync_log, RunningLog(SyncType(job[p].handler)))
                 /\ job' = [job EXCEPT ![p] =
                              [@ EXCEPT !.pc = IF job[p].handler = "syncInventoryJob"
                                                 THEN "products" ELSE "watermark",
                                        !.syncLogId = Len(marketplace_sync_log) + 1]]
            ELSE /\ job' = [job EXCEPT ![p] = Caught(@, "query failed")]
                 /\ UNCHANGED marketplace_sync_log
  /\ UNCHANGED << remoteOrders, client, marketplace_orders, now, scheduler, marketplace_shipments, products >>

\* lines 146-163: the watermark is read and fetchOrders is called with it
SelectWatermark(p) ==
  /\ job[p].pc = "watermark"
  /\ \E ok \in DbOutcomes :
       /\ faults' = Charged(ok)
       /\ IF ok
            THEN LET since == LastSuccess(marketplace_sync_log, "orders") IN
                 /\ job' = [job EXCEPT ![p] = [@ EXCEPT !.pc = "fetching",
                                                 !.lastUpdated = since]]
                 /\ client' = [client EXCEPT ![p] =
                                 StartCall(@, "fetchOrders", maxRetriesDefault, since)]
            ELSE /\ job' = [job EXCEPT ![p] = Caught(@, "query failed")]
                 /\ UNCHANGED client
  /\ UNCHANGED << remoteOrders, marketplace_orders, marketplace_sync_log, now, scheduler, marketplace_shipments, products >>

\* the loop over the fetched orders moves on: the existence check of the
\* next order is sent, or, after the last order, the UPDATE that closes the
\* entry as success
NextOrder(j, orders) ==
  IF j.idx < Len(orders)
    THEN [j EXCEPT !.pc = IF j.handler = "pullOrdersRoute" THEN "routeUpsert" ELSE "select",
                   !.idx = @ + 1]
    ELSE [j EXCEPT !.pc = "closeSuccess", !.closedAt = now]

\* mutant: the failure of an order ends the run
OrderCatchAborts(j, orders) == Caught(j, "query failed")

\* lines 248-251: the catch inside the loop logs the failure of the order
\* and the loop goes on
OrderCatch(j, orders) == NextOrder(j, orders)

\* lines 163-197: fetchOrders has ended
FetchDone(p) ==
  /\ job[p].pc = "fetching"
  /\ client[p].pc = "done"
  /\ job' = [job EXCEPT ![p] =
               IF client[p].outcome = "threw"
                 THEN Caught(@, client[p].error.kind)
                 ELSE NextOrder(@, client[p].returned)]
  /\ UNCHANGED << remoteOrders, client, marketplace_orders, marketplace_sync_log, now, scheduler, marketplace_shipments, products, faults >>

\* lines 203-208: SELECT id FROM marketplace_orders WHERE mirakl_order_id = $1;
\* a failure is caught for this order and the loop goes on
SelectExisting(p) ==
  /\ job[p].pc = "select"
  /\ \E ok \in DbOutcomes :
       /\ faults' = Charged(ok)
       /\ job' = [job EXCEPT ![p] =
                    IF ok
                      THEN [@ EXCEPT !.pc = "upsert",
                                     !.isUpdate = HasOrder(marketplace_orders,
                                                    client[p].returned[job[p].idx].order_id)]
                      ELSE OrderCatch(@, client[p].returned)]
  /\ UNCHANGED << remoteOrders, client, marketplace_orders, marketplace_sync_log, now, scheduler, marketplace_shipments, products >>

\* lines 211-251: the upsert of the order; a failure is caught for this
\* order and the loop goes on
UpsertOrder(p) ==
  /\ job[p].pc = "upsert"
  /\ \E ok \in DbOutcomes :
       /\ faults' = Charged(ok)
       /\ IF ok
            THEN /\ marketplace_orders' =
                      Upsert(marketplace_orders, OrderRow(client[p].returned[job[p].idx]))
                 /\ job' = [job EXCEPT ![p] =
                              NextOrder([@ EXCEPT !.updatedCount = IF job[p].isUpdate THEN @ + 1 ELSE @,
                                                  !.importedCount = IF job[p].isUpdate THEN @ ELSE @ + 1,
                                                  !.upserted = job[p].upserted + 1],
                                        client[p].returned)]
            ELSE /\ job' = [job EXCEPT ![p] = OrderCatch(@, client[p].returned)]
                 /\ UNCHANGED marketplace_orders
  /\ UNCHANGED << remoteOrders, client, marketplace_sync_log, now, scheduler, marketplace_shipments, products >>

\* mutant: only the new orders are counted
ProcessedImportedOnly(j) ==
  IF j.handler = "syncInventoryJob" THEN Len(j.products) ELSE j.importedCount

\* totalProcessed = importedCount + updatedCount (the route counts in
\* importedCount only); products.length in syncInventoryJob
Processed(j) ==
  IF j.handler = "syncInventoryJob" THEN Len(j.products) ELSE j.importedCount + j.updatedCount

\* lines 168-173 and 257-262: the entry is closed as success
CloseSuccess(p) ==
  /\ job[p].pc = "closeSuccess"
  /\ \E ok \in DbOutcomes :
       /\ faults' = Charged(ok)
       /\ IF ok
            THEN /\ marketplace_sync_log' =
                      [marketplace_sync_log EXCEPT ![job[p].syncLogId] =
                         [@ EXCEPT !.status = "success", !.completed_at = job[p].closedAt,
                                   !.records_processed = Processed(job[p])]]
                 /\ job' = [job EXCEPT ![p] = [@ EXCEPT !.pc = "done", !.success = "true"]]
            ELSE /\ job' = [job EXCEPT ![p] = Caught(@, "query failed")]
                 /\ UNCHANGED marketplace_sync_log
  /\ UNCHANGED << remoteOrders, client, marketplace_orders, now, scheduler, marketplace_shipments, products >>

\* return { success: false, error: error.message, ... }
ReturnFailure(j) == [j EXCEPT !.pc = "done", !.success = "false"]

\* mutant: the failure of the UPDATE that records the failure is thrown on
LogErrorRethrown(j) == [j EXCEPT !.pc = "done", !.success = "rejected"]

\* catch (logError) { console.error(...) }: the failure of the UPDATE that
\* records the failure is logged, and the job returns its failure
LogErrorCaught(j) == ReturnFailure(j)

\* lines 283-311: the entry is closed as failed; a failure of this UPDATE is
\* logged and the job returns its failure all the same
CloseFailed(p) ==
  /\ job[p].pc = "closeFailed"
  /\ \E ok \in DbOutcomes :
       /\ faults' = Charged(ok)
       /\ marketplace_sync_log' =
            IF ok
              THEN [marketplace_sync_log EXCEPT ![job[p].syncLogId] =
                      [@ EXCEPT !.status = "failed", !.completed_at = job[p].closedAt,
                                !.error_message = job[p].error]]
              ELSE marketplace_sync_log
       /\ job' = [job EXCEPT ![p] = IF ok THEN ReturnFailure(@) ELSE LogErrorCaught(@)]
  /\ UNCHANGED << remoteOrders, client, marketplace_orders, now, scheduler, marketplace_shipments, products >>

\* the caller of the job has its result
JobReturn(p) ==
  /\ job[p].pc = "done"
  /\ job' = [job EXCEPT ![p] = IdleJob]
  /\ client' = [client EXCEPT ![p] = IdleClient]
  /\ UNCHANGED << remoteOrders, marketplace_orders, marketplace_sync_log, now, scheduler, marketplace_shipments, products, faults >>

(***************************************************************************)
(* The environment of the jobs: the marketplace moves an order on to a     *)
(* later state.                                                            *)
(***************************************************************************)
RemoteStates == {"WAITING_ACCEPTANCE", "SHIPPING"}

\* The failures of the remote in the runs of the jobs: a retryable and a
\* non-retryable status.
JobStatuses == {500, 400}

\* A request of a job or of a route fails.  A fault of the remote lasts for
\* the attempts of one call: the failure of the first attempt is counted.
RemoteFault(p) ==
  /\ client[p].attempt > 1 \/ faults < MaxFaults
  /\ ResponseFailWith(p, JobStatuses)
  /\ faults' = IF client[p].attempt > 1 THEN faults ELSE faults + 1

RemoteUpdate(i, state) ==
  /\ i \in 1 .. Len(remoteOrders)
  /\ remoteOrders[i].order_state = "WAITING_ACCEPTANCE" /\ state # "WAITING_ACCEPTANCE"
  /\ remoteOrders' = [remoteOrders EXCEPT ![i] =
                        [@ EXCEPT !.order_state = state, !.updated = now]]
  /\ UNCHANGED << client, job, marketplace_orders, marketplace_sync_log, now, scheduler, marketplace_shipments, products, faults >>

InitJobs ==
  /\ remoteOrders = RemoteWith(MaxRemoteOrders)
  /\ client = [p \in Procs |-> IdleClient]
  /\ job = [p \in Procs |-> IdleJob]
  /\ marketplace_orders = << >>
  /\ marketplace_sync_log = << >>
  /\ now = 0
  /\ scheduler = NoScheduler
  /\ marketplace_shipments = << >>
  /\ products = ProductsWith(MaxProducts)
  /\ faults = 0

\* The remote of the jobs holds fewer orders than a page, and answers as
\* the pagination contract says: a fetch of a job is one page.
NextJobs ==
  \/ \E p \in Procs :
       \/ StartedRuns < MaxRuns /\ StartJob(p)
       \/ InsertLog(p)
       \/ SelectWatermark(p)
       \/ PageOk(p) /\ client'[p].contract
       \/ faults < MaxFaults /\ ResponseFailWith(p, JobStatuses) /\ faults' = faults + 1
       \/ BackoffElapsed(p)
       \/ FetchDone(p)
       \/ SelectExisting(p)
       \/ UpsertOrder(p)
       \/ CloseSuccess(p)
       \/ CloseFailed(p)
       \/ JobReturn(p)
  \/ \E i \in 1 .. MaxRemoteOrders : \E state \in RemoteStates : RemoteUpdate(i, state)

SpecJobs == InitJobs /\ [][NextJobs]_vars

(***************************************************************************)
(* GET /pull-orders of routes/marketplace.js: the ingestion cycle of the   *)
(* job, but the upsert of an order has no try/catch of its own and no      *)
(* existence check before it.                                              *)
(***************************************************************************)
StartPullOrdersRoute(p) ==
  /\ job[p].pc = "idle" /\ client[p].pc = "idle"
  /\ job' = [job EXCEPT ![p] = [IdleJob EXCEPT !.pc = "insertLog",
                                               !.handler = "pullOrdersRoute"]]
  /\ UNCHANGED << remoteOrders, client, marketplace_orders, marketplace_sync_log, now, scheduler, marketplace_shipments, products, faults >>

\* routes/marketplace.js, lines 157-188: the upsert of the order; a failure
\* leaves the loop for the catch of the route
RouteUpsertOrder(p) ==
  /\ job[p].pc = "routeUpsert"
  /\ \E ok \in DbOutcomes :
       /\ faults' = Charged(ok)
       /\ IF ok
            THEN /\ marketplace_orders' =
                      Upsert(marketplace_orders, OrderRow(client[p].returned[job[p].idx]))
                 /\ job' = [job EXCEPT ![p] =
                              NextOrder([@ EXCEPT !.importedCount = @ + 1,
                                                  !.upserted = job[p].upserted + 1],
                                        client[p].returned)]
            ELSE /\ job' = [job EXCEPT ![p] = Caught(@, "query failed")]
                 /\ UNCHANGED marketplace_orders
  /\ UNCHANGED << remoteOrders, client, marketplace_sync_log, now, scheduler, marketplace_shipments, products >>

(***************************************************************************)
(* syncInventoryJob.  products of the job are the rows its SELECT returned, *)
(* the snapshots that syncOffers transmits.                                *)
(***************************************************************************)
StartInventoryJob(p) ==
  /\ job[p].pc = "idle" /\ client[p].pc = "idle"
  /\ job' = [job EXCEPT ![p] = [IdleJob EXCEPT !.pc = "insertLog",
                                               !.handler = "syncInventoryJob"]]
  /\ UNCHANGED << remoteOrders, client, marketplace_orders, marketplace_sync_log, now, scheduler, marketplace_shipments, products, faults >>

\* lines 30-60: the products are read; without products the entry is closed
\* as success, else syncOffers is called
SelectProducts(p) ==
  /\ job[p].pc = "products"
  /\ \E ok \in DbOutcomes :
       /\ faults' = Charged(ok)
       /\ IF ok
            THEN LET rows == MappedProducts(products) IN
                   IF Len(rows) = 0
                     THEN /\ job' = [job EXCEPT ![p] =
                                       [@ EXCEPT !.pc = "closeSuccess", !.closedAt = now]]
                          /\ UNCHANGED client
                     ELSE /\ job' = [job EXCEPT ![p] =
                                       [@ EXCEPT !.pc = "syncing", !.products = rows]]
                          /\ client' = [client EXCEPT ![p] =
                                          StartCall(@, "syncOffers", maxRetriesDefault, NoDate)]
            ELSE /\ job' = [job EXCEPT ![p] = Caught(@, "query failed")]
                 /\ UNCHANGED client
  /\ UNCHANGED << remoteOrders, marketplace_orders, marketplace_sync_log, now, scheduler, marketplace_shipments, products >>

\* lines 60-69: syncOffers has ended; the UPDATE of last_synced_at is sent
SyncOffersDone(p) ==
  /\ job[p].pc = "syncing"
  /\ client[p].pc = "done"
  /\ job' = [job EXCEPT ![p] =
               IF client[p].outcome = "threw"
                 THEN Caught(@, client[p].error.kind)
                 ELSE [@ EXCEPT !.pc = "markSynced", !.closedAt = now]]
  /\ UNCHANGED << remoteOrders, client, marketplace_orders, marketplace_sync_log, now, scheduler, marketplace_shipments, products, faults >>

\* lines 64-77: UPDATE products SET last_synced_at; the UPDATE that closes
\* the entry as success is sent
MarkSynced(p) ==
  /\ job[p].pc = "markSynced"
  /\ \E ok \in DbOutcomes :
       /\ faults' = Charged(ok)
       /\ products' = IF ok
                        THEN SyncedProducts(products, job[p].products, job[p].closedAt)
                        ELSE products
       /\ job' = [job EXCEPT ![p] =
                    IF ok
                      THEN [@ EXCEPT !.pc = "closeSuccess", !.closedAt = now]
                      ELSE Caught(@, "query failed")]
  /\ UNCHANGED << remoteOrders, client, marketplace_orders, marketplace_sync_log, now, scheduler, marketplace_shipments >>

(***************************************************************************)
(* POST /orders/:id/accept and POST /orders/:id/ship of                    *)
(* routes/marketplace.js.                                                  *)
(***************************************************************************)
\* the route answers with the status
Respond(j, status) == [j EXCEPT !.pc = "done", !.httpStatus = status]

\* mutant: after a failure of the remote call the route goes on to its UPDATE
RouteCatchGoesOn(j) ==
  IF j.pc = "accepting" THEN [j EXCEPT !.pc = "acceptUpdate", !.closedAt = now]
  ELSE IF j.pc = "shipping" THEN [j EXCEPT !.pc = "shipUpdate", !.closedAt = now]
  ELSE Respond(j, 500)

\* catch (error) { res.status(500).json({ success: false, ... }) }
RouteCatch(j) == Respond(j, 500)

\* mutant: the guard looks at the state of the order
AlreadyAcceptedByState(order) == order.order_state = "SHIPPING"

\* if (order.accepted_at)
AlreadyAccepted(order) == order.accepted_at # NoDate

\* if (order.shipped_at)
AlreadyShipped(order) == order.shipped_at # NoDate

StartAccept(p, id) ==
  /\ job[p].pc = "idle" /\ client[p].pc = "idle"
  /\ job' = [job EXCEPT ![p] = [IdleJob EXCEPT !.pc = "acceptSelect",
                                               !.handler = "acceptRoute", !.id = id]]
  /\ UNCHANGED << remoteOrders, client, marketplace_orders, marketplace_sync_log, now, scheduler, marketplace_shipments, products, faults >>

\* lines 343-369: the order is read; 404 without it, 400 when it is accepted
\* already, else acceptOrder is called
AcceptSelect(p) ==
  /\ job[p].pc = "acceptSelect"
  /\ \E ok \in DbOutcomes :
       /\ faults' = Charged(ok)
       /\ IF ~ ok
            THEN job' = [job EXCEPT ![p] = RouteCatch(@)] /\ UNCHANGED client
            ELSE IF job[p].id > Len(marketplace_orders)
              THEN job' = [job EXCEPT ![p] = Respond(@, 404)] /\ UNCHANGED client
              ELSE IF AlreadyAccepted(marketplace_orders[job[p].id])
                THEN job' = [job EXCEPT ![p] = Respond(@, 400)] /\ UNCHANGED client
                ELSE /\ job' = [job EXCEPT ![p] = [@ EXCEPT !.pc = "accepting"]]
                     /\ client' = [client EXCEPT ![p] =
                                     StartCall(@, "acceptOrder", maxRetriesDefault, NoDate)]
  /\ UNCHANGED << remoteOrders, marketplace_orders, marketplace_sync_log, now, scheduler, marketplace_shipments, products >>

\* lines 369-378: acceptOrder has ended; the UPDATE of the order is sent
AcceptOrderDone(p) ==
  /\ job[p].pc = "accepting"
  /\ client[p].pc = "done"
  /\ job' = [job EXCEPT ![p] =
               IF client[p].outcome = "threw"
                 THEN RouteCatch(@)
                 ELSE [@ EXCEPT !.pc = "acceptUpdate", !.closedAt = now]]
  /\ UNCHANGED << remoteOrders, client, marketplace_orders, marketplace_sync_log, now, scheduler, marketplace_shipments, products, faults >>

\* lines 372-385: UPDATE marketplace_orders SET order_state = 'SHIPPING',
\* accepted_at = new Date() WHERE id = $3
AcceptUpdate(p) ==
  /\ job[p].pc = "acceptUpdate"
  /\ \E ok \in DbOutcomes :
       /\ faults' = Charged(ok)
       /\ IF ok
            THEN /\ marketplace_orders' =
                      [marketplace_orders EXCEPT ![job[p].id] =
                         [@ EXCEPT !.order_state = "SHIPPING",
                                   !.accepted_at = job[p].closedAt]]
                 /\ job' = [job EXCEPT ![p] = Respond(@, Ok)]
            ELSE /\ job' = [job EXCEPT ![p] = RouteCatch(@)]
                 /\ UNCHANGED marketplace_orders
  /\ UNCHANGED << remoteOrders, client, marketplace_sync_log, now, scheduler, marketplace_shipments, products >>

\* lines 399-410: a request without trackingNumber or carrierCode is
\* answered 400 at once
StartShip(p, id, complete) ==
  /\ job[p].pc = "idle" /\ client[p].pc = "idle"
  /\ job' = [job EXCEPT ![p] =
               IF complete
                 THEN [IdleJob EXCEPT !.pc = "shipSelect", !.handler = "shipRoute", !.id = id]
                 ELSE Respond([IdleJob EXCEPT !.handler = "shipRoute", !.id = id], 400)]
  /\ UNCHANGED << remoteOrders, client, marketplace_orders, marketplace_sync_log, now, scheduler, marketplace_shipments, products, faults >>

\* lines 413-444: the order is read; 404 without it, 400 when it is shipped
\* already, else createShipment is called
ShipSelect(p) ==
  /\ job[p].pc = "shipSelect"
  /\ \E ok \in DbOutcomes :
       /\ faults' = Charged(ok)
       /\ IF ~ ok
            THEN job' = [job EXCEPT ![p] = RouteCatch(@)] /\ UNCHANGED client
            ELSE IF job[p].id > Len(marketplace_orders)
              THEN job' = [job EXCEPT ![p] = Respond(@, 404)] /\ UNCHANGED client
              ELSE IF AlreadyShipped(marketplace_orders[job[p].id])
                THEN job' = [job EXCEPT ![p] = Respond(@, 400)] /\ UNCHANGED client
                ELSE /\ job' = [job EXCEPT ![p] = [@ EXCEPT !.pc = "shipping"]]
                     /\ client' = [client EXCEPT ![p] =
                                     StartCall(@, "createShipment", maxRetriesDefault, NoDate)]
  /\ UNCHANGED << remoteOrders, marketplace_orders, marketplace_sync_log, now, scheduler, marketplace_shipments, products >>

\* lines 439-452: createShipment has ended; the UPDATE of the order is sent
CreateShipmentDone(p) ==
  /\ job[p].pc = "shipping"
  /\ client[p].pc = "done"
  /\ job' = [job EXCEPT ![p] =
               IF client[p].outcome = "threw"
                 THEN RouteCatch(@)
                 ELSE [@ EXCEPT !.pc = "shipUpdate", !.closedAt = now]]
  /\ UNCHANGED << remoteOrders, client, marketplace_orders, marketplace_sync_log, now, scheduler, marketplace_shipments, products, faults >>

\* lines 447-472: UPDATE marketplace_orders SET shipped_at = new Date(),
\* order_state = 'SHIPPED' WHERE id = $3; the INSERT of the shipment is sent
ShipUpdate(p) ==
  /\ job[p].pc = "shipUpdate"
  /\ \E ok \in DbOutcomes :
       /\ faults' = Charged(ok)
       /\ IF ok
            THEN /\ marketplace_orders' =
                      [marketplace_orders EXCEPT ![job[p].id] =
                         [@ EXCEPT !.order_state = "SHIPPED",
                                   !.shipped_at = job[p].closedAt]]
                 /\ job' = [job EXCEPT ![p] = [@ EXCEPT !.pc = "shipInsert"]]
            ELSE /\ job' = [job EXCEPT ![p] = RouteCatch(@)]
                 /\ UNCHANGED marketplace_orders
  /\ UNCHANGED << remoteOrders, client, marketplace_sync_log, now, scheduler, marketplace_shipments, products >>

\* lines 455-479: INSERT INTO marketplace_shipments
ShipInsert(p) ==
  /\ job[p].pc = "shipInsert"
  /\ \E ok \in DbOutcomes :
       /\ faults' = Charged(ok)
       /\ marketplace_shipments' =
            IF ok THEN Append(marketplace_shipments, ShipmentRow(job[p].id))
                  ELSE marketplace_shipments
       /\ job' = [job EXCEPT ![p] = Respond(@, IF ok THEN Ok ELSE 500)]
  /\ UNCHANGED << remoteOrders, client, marketplace_orders, marketplace_sync_log, now, scheduler, products >>

(***************************************************************************)
(* The ingestion of a batch: one caller runs the job and the route one     *)
(* after the other against a remote that holds several orders, fewer than  *)
(* a page, and answers as the pagination contract says.                    *)
(***************************************************************************)
InitBatch ==
  /\ remoteOrders = RemoteWith(MaxBatchOrders)
  /\ client = [p \in Procs |-> IdleClient]
  /\ job = [p \in Procs |-> IdleJob]
  /\ marketplace_orders = << >>
  /\ marketplace_sync_log = << >>
  /\ now = 0
  /\ scheduler = NoScheduler
  /\ marketplace_shipments = << >>
  /\ products = ProductsWith(MaxProducts)
  /\ faults = 0

NextBatch ==
  \/ StartedRuns < MaxRuns /\ StartJob(Caller)
  \/ StartedRuns < MaxRuns /\ StartPullOrdersRoute(Caller)
  \/ InsertLog(Caller)
  \/ SelectWatermark(Caller)
  \/ PageOk(Caller) /\ client'[Caller].contract
  \/ RemoteFault(Caller)
  \/ BackoffElapsed(Caller)
  \/ FetchDone(Caller)
  \/ SelectExisting(Caller)
  \/ UpsertOrder(Caller)
  \/ RouteUpsertOrder(Caller)
  \/ CloseSuccess(Caller)
  \/ CloseFailed(Caller)
  \/ JobReturn(Caller)
  \/ \E i \in 1 .. MaxBatchOrders : \E state \in RemoteStates : RemoteUpdate(i, state)

SpecBatch == InitBatch /\ [][NextBatch]_vars

(***************************************************************************)
(* The jobs over time: one caller runs pullOrdersJob and syncInventoryJob  *)
(* one after the other while the clock advances; the marketplace leaves    *)
(* its orders as they are and answers every request, the faults are those  *)
(* of the database.                                                        *)
(***************************************************************************)
\* Time passes between two invocations and while fetchOrders is awaited.
Tick ==
  /\ now < MaxClock
  /\ job[Caller].pc \in {"idle", "fetching"}
  /\ now' = now + 1
  /\ UNCHANGED << remoteOrders, client, job, marketplace_orders, marketplace_sync_log, faults, scheduler, marketplace_shipments, products >>

NextWatermark ==
  \/ StartedRuns < MaxWatermarkRuns /\ StartJob(Caller)
  \/ StartedRuns < MaxWatermarkRuns /\ StartInventoryJob(Caller)
  \/ InsertLog(Caller)
  \/ SelectWatermark(Caller)
  \/ SelectProducts(Caller)
  \/ PageOk(Caller) /\ client'[Caller].contract
  \/ ResponseOk(Caller)
  \/ FetchDone(Caller)
  \/ SyncOffersDone(Caller)
  \/ MarkSynced(Caller)
  \/ SelectExisting(Caller)
  \/ UpsertOrder(Caller)
  \/ CloseSuccess(Caller)
  \/ CloseFailed(Caller)
  \/ JobReturn(Caller)
  \/ Tick

SpecWatermark == InitJobs /\ [][NextWatermark]_vars

(***************************************************************************)
(* The local actions on the stored orders: one caller runs the ingestion   *)
(* (job or route) and the accept and ship routes one after the other.      *)
(***************************************************************************)
NextLocal ==
  \/ StartedRuns < MaxRuns /\ StartJob(Caller)
  \/ StartedRuns < MaxRuns /\ StartPullOrdersRoute(Caller)
  \/ InsertLog(Caller)
  \/ SelectWatermark(Caller)
  \/ PageOk(Caller) /\ client'[Caller].contract
  \/ ResponseOk(Caller)
  \/ RemoteFault(Caller)
  \/ BackoffElapsed(Caller)
  \/ FetchDone(Caller)
  \/ SelectExisting(Caller)
  \/ UpsertOrder(Caller)
  \/ RouteUpsertOrder(Caller)
  \/ CloseSuccess(Caller)
  \/ CloseFailed(Caller)
  \/ JobReturn(Caller)
  \/ \E id \in 1 .. MaxRemoteOrders : StartAccept(Caller, id)
  \/ AcceptSelect(Caller)
  \/ AcceptOrderDone(Caller)
  \/ AcceptUpdate(Caller)
  \/ \E id \in 1 .. MaxRemoteOrders : \E complete \in BOOLEAN : StartShip(Caller, id, complete)
  \/ ShipSelect(Caller)
  \/ CreateShipmentDone(Caller)
  \/ ShipUpdate(Caller)
  \/ ShipInsert(Caller)
  \/ \E i \in 1 .. MaxRemoteOrders : \E state \in RemoteStates : RemoteUpdate(i, state)

SpecLocal == InitJobs /\ [][NextLocal]_vars

(***************************************************************************)
(* Two call chains on the one thread of the process.  The first runs       *)
(* pullOrdersJob against a remote that fails; a second invocation, of      *)
(* syncInventoryJob or of the accept route, arrives while the fetch of the *)
(* first waits between two attempts.                                       *)
(***************************************************************************)
Second == 2

\* mutant: delay spins on the thread until the time is over
BlockingDelay(c) == c.pc \in {"backoff", "pagedelay"}

\* delay(ms): new Promise(resolve => setTimeout(resolve, ms)); the caller
\* awaits a timer and the call chain holds the thread at no await
Blocking(c) == FALSE

\* the event loop runs a step of q when no other call chain holds the thread
Runs(q) == \A p \in Procs \ {q} : ~Blocking(client[p])

FirstStep(p) ==
  /\ Runs(p)
  /\ \/ StartedRuns < MaxRuns /\ StartJob(p)
     \/ InsertLog(p)
     \/ SelectWatermark(p)
     \/ PageOk(p) /\ client'[p].contract
     \/ RemoteFault(p)
     \/ BackoffElapsed(p)
     \/ FetchDone(p)
     \/ SelectExisting(p)
     \/ UpsertOrder(p)
     \/ CloseSuccess(p)
     \/ CloseFailed(p)
     \/ JobReturn(p)

SecondStep(q) ==
  /\ Runs(q)
  /\ \/ /\ client[Caller].pc = "backoff"
        /\ StartedRuns < MaxWatermarkRuns
        /\ StartInventoryJob(q)
     \/ /\ client[Caller].pc = "backoff"
        /\ \E id \in 1 .. MaxRemoteOrders : StartAccept(q, id)
     \/ InsertLog(q)
     \/ SelectProducts(q)
     \/ ResponseOk(q)
     \/ SyncOffersDone(q)
     \/ MarkSynced(q)
     \/ AcceptSelect(q)
     \/ AcceptOrderDone(q)
     \/ AcceptUpdate(q)
     \/ CloseSuccess(q)
     \/ CloseFailed(q)
     \/ JobReturn(q)

NextOverlap == FirstStep(Caller) \/ SecondStep(Second)

SpecOverlap == InitJobs /\ [][NextOverlap]_vars

(***************************************************************************)
(* The jobs under lasting faults: one caller runs pullOrdersJob and        *)
(* syncInventoryJob one after the other; the remote and the storage fail,  *)
(* and fail again while a job records its failure.                         *)
(***************************************************************************)
\* the fault that ended the run is not over when the job records it
FaultAgain ==
  /\ faults > 0
  /\ \E p \in Procs : job[p].pc = "closeFailed"
  /\ faults' = faults - 1
  /\ UNCHANGED << remoteOrders, client, job, marketplace_orders, marketplace_sync_log, now, scheduler, marketplace_shipments, products >>

NextFaults ==
  \/ StartedRuns < MaxRuns /\ StartJob(Caller)
  \/ StartedRuns < MaxRuns /\ StartInventoryJob(Caller)
  \/ InsertLog(Caller)
  \/ SelectWatermark(Caller)
  \/ SelectProducts(Caller)
  \/ PageOk(Caller) /\ client'[Caller].contract
  \/ ResponseOk(Caller)
  \/ RemoteFault(Caller)
  \/ BackoffElapsed(Caller)
  \/ FetchDone(Caller)
  \/ SyncOffersDone(Caller)
  \/ MarkSynced(Caller)
  \/ SelectExisting(Caller)
  \/ UpsertOrder(Caller)
  \/ CloseSuccess(Caller)
  \/ CloseFailed(Caller)
  \/ JobReturn(Caller)
  \/ FaultAgain

SpecFaults == InitJobs /\ [][NextFaults]_vars

(***************************************************************************)
(* Numbers.  A JavaScript Number is an IEEE 754 double: a mantissa of 53    *)
(* bits and an exponent, value m * 2^e.  The mantissa is held as a         *)
(* sequence of limbs of 15 bits, least significant first, so that every    *)
(* intermediate value is exact; the empty sequence is 0.                   *)
(***************************************************************************)
Base == 32768
MantissaBits == 53

RECURSIVE Pow2(_)
Pow2(k) == IF k = 0 THEN 1 ELSE 2 * Pow2(k - 1)

RECURSIVE BitLenInt(_)
BitLenInt(n) == IF n = 0 THEN 0 ELSE 1 + BitLenInt(n \div 2)

RECURSIVE FromInt(_)
FromInt(n) == IF n = 0 THEN << >> ELSE << n % Base >> \o FromInt(n \div Base)

RECURSIVE ToInt(_)
ToInt(x) == IF x = << >> THEN 0 ELSE Head(x) + Base * ToInt(Tail(x))

BitLen(x) == IF x = << >> THEN 0 ELSE 15 * (Len(x) - 1) + BitLenInt(x[Len(x)])

IsOdd(x) == x # << >> /\ Head(x) % 2 = 1

\* x * s + carry, for a small s
RECURSIVE MulCarry(_, _, _)
MulCarry(x, s, carry) ==
  IF x = << >>
    THEN FromInt(carry)
    ELSE LET t == Head(x) * s + carry
         IN << t % Base >> \o MulCarry(Tail(x), s, t \div Base)

RECURSIVE Norm(_)
Norm(x) ==
  IF x # << >> /\ x[Len(x)] = 0 THEN Norm(SubSeq(x, 1, Len(x) - 1)) ELSE x

\* quotient and remainder of x by a small s
RECURSIVE DivFrom(_, _)
DivFrom(x, s) ==
  IF x = << >>
    THEN [q |-> << >>, r |-> 0]
    ELSE LET hi == DivFrom(Tail(x), s)
             t == hi.r * Base + Head(x)
         IN [q |-> << t \div s >> \o hi.q, r |-> t % s]

DivSmall(x, s) == LET d == DivFrom(x, s) IN [q |-> Norm(d.q), r |-> d.r]

RECURSIVE ShiftLeft(_, _)
ShiftLeft(x, k) ==
  IF x = << >> \/ k = 0 THEN x
  ELSE IF k >= 15 THEN ShiftLeft(<< 0 >> \o x, k - 15)
  ELSE MulCarry(x, Pow2(k), 0)

\* floor(x / 2^k)
RECURSIVE ShiftRight(_, _)
ShiftRight(x, k) ==
  IF x = << >> \/ k = 0 THEN x
  ELSE IF k >= 15 THEN ShiftRight(Tail(x), k - 15)
  ELSE DivSmall(x, Pow2(k)).q

Zero == [m |-> << >>, e |-> 0]

\* the quotient q with remainder r of a division by d, rounded to the
\* nearest, ties to even, and brought back to 53 bits when it carried
Nearest(q, r, d, e) ==
  LET up == 2 * r > d \/ (2 * r = d /\ IsOdd(q))
      m == IF up THEN MulCarry(q, 1, 1) ELSE q
  IN IF BitLen(m) > MantissaBits
       THEN [m |-> ShiftRight(m, 1), e |-> e + 1]
       ELSE [m |-> m, e |-> e]

\* the double nearest to n / d, for integers n >= 0 and 0 < d < Base
DivDouble(n, d) ==
  IF n = 0 THEN Zero
  ELSE LET k0 == MantissaBits + BitLenInt(d) - BitLenInt(n)
           q0 == DivSmall(ShiftLeft(FromInt(n), k0), d)
           k == IF BitLen(q0.q) > MantissaBits THEN k0 - 1 ELSE k0
           qr == IF k = k0 THEN q0 ELSE DivSmall(ShiftLeft(FromInt(n), k), d)
       IN Nearest(qr.q, qr.r, d, -k)

\* the double nearest to x * s, for a small integer s >= 1
MulDouble(x, s) ==
  IF x.m = << >> THEN Zero
  ELSE LET p == MulCarry(x.m, s, 0)
           sh == BitLen(p) - MantissaBits
       IN IF sh = 0 THEN [m |-> p, e |-> x.e]
          ELSE LET qr == DivSmall(p, Pow2(sh))
               IN Nearest(qr.q, qr.r, Pow2(sh), x.e + sh)

\* floor(m * 2^e + 1/2), for e < 0: the nearest integer, a tie going up
HalfUp(m, e) == (ToInt(ShiftRight(m, (-e) - 1)) + 1) \div 2

\* floor(m * 2^e), for e < 0
Floor(m, e) == ToInt(ShiftRight(m, -e))

\* Math.round(x)
MathRound(x) ==
  IF x.m = << >> THEN 0
  ELSE IF x.e >= 0 THEN ToInt(ShiftLeft(x.m, x.e))
  ELSE HalfUp(x.m, x.e)

\* Math.floor(x)
MathFloor(x) ==
  IF x.m = << >> THEN 0
  ELSE IF x.e >= 0 THEN ToInt(ShiftLeft(x.m, x.e))
  ELSE Floor(x.m, x.e)

(***************************************************************************)
(* Strings of decimal digits, as sequences of characters.                  *)
(***************************************************************************)
DigitChars == << "0", "1", "2", "3", "4", "5", "6", "7", "8", "9" >>

DigitOf(ch) == (CHOOSE d \in 1 .. 10 : DigitChars[d] = ch) - 1

RECURSIVE Digits(_)
Digits(n) ==
  IF n < 10 THEN << DigitChars[n + 1] >>
  ELSE Digits(n \div 10) \o << DigitChars[(n % 10) + 1] >>

RECURSIVE ParseDigits(_)
ParseDigits(s) ==
  IF s = << >> THEN 0
  ELSE 10 * ParseDigits(SubSeq(s, 1, Len(s) - 1)) + DigitOf(s[Len(s)])

\* Number.prototype.toFixed(2): n is the integer for which n / 100 - x is
\* closest to zero, the larger one of two; its digits, filled with zeros
\* up to three, with the point before the last two
ToFixed2(x) ==
  LET n == IF x.m = << >> THEN 0 ELSE HalfUp(MulCarry(x.m, 100, 0), x.e)
      d == Digits(n)
      padded == IF Len(d) <= 2 THEN [i \in 1 .. 3 - Len(d) |-> "0"] \o d ELSE d
  IN SubSeq(padded, 1, Len(padded) - 2) \o << "." >>
       \o SubSeq(padded, Len(padded) - 1, Len(padded))

\* parseFloat of a decimal literal: the double nearest to its value
ParseFloat(s) ==
  LET point == CHOOSE i \in 1 .. Len(s) + 1 : (i = Len(s) + 1 \/ s[i] = ".")
                                            /\ \A j \in 1 .. i - 1 : s[j] # "."
      whole == SubSeq(s, 1, point - 1)
      fraction == SubSeq(s, point + 1, Len(s))
  IN DivDouble(ParseDigits(whole \o fraction), 10 ^ Len(fraction))

\* centsToDollars(cents): (cents / 100).toFixed(2)
centsToDollars(cents) == ToFixed2(DivDouble(cents, 100))

\* mutant: the cents are cut off, not rounded
dollarsToCentsFloor(dollars) == MathFloor(MulDouble(ParseFloat(dollars), 100))

\* dollarsToCents(dollars): Math.round(parseFloat(dollars) * 100)
dollarsToCents(dollars) == MathRound(MulDouble(ParseFloat(dollars), 100))

(***************************************************************************)
(* The synchronous methods of the service: a call returns in one step,     *)
(* arg being its argument and value what it returned.                      *)
(***************************************************************************)
\* the largest amount of the range that is checked
CentsLimit == 10000000

\* the amounts of the conversion tests, the smallest amounts, amounts
\* spread over the range and the largest amounts
CentsSamples ==
  {0, 1, 100, 9999, 12345, 50000}
    \cup (0 .. MaxCents)
    \cup { (CentsLimit \div MaxCents) * i : i \in 0 .. MaxCents }
    \cup { CentsLimit - i : i \in 0 .. MaxCents }

DollarSamples ==
  { << "0", ".", "0", "0" >>, << "1", ".", "0", "0" >>, << "9", "9", ".", "9", "9" >>,
    << "1", "2", "3", ".", "4", "5" >>, << "0", ".", "0", "1" >> }

Returned(op, arg, value) ==
  [IdleClient EXCEPT !.op = op, !.pc = "done", !.outcome = "returned",
                     !.arg = arg, !.value = value]

CallCentsToDollars(p, cents) ==
  /\ client[p].pc = "idle"
  /\ client' = [client EXCEPT ![p] = Returned("centsToDollars", cents, centsToDollars(cents))]
  /\ UNCHANGED << env, faults >>

CallDollarsToCents(p, dollars) ==
  /\ client[p].pc = "idle"
  /\ client' = [client EXCEPT ![p] = Returned("dollarsToCents", dollars, dollarsToCents(dollars))]
  /\ UNCHANGED << env, faults >>

\* const dollars = centsToDollars(originalCents);
\* const backToCents = dollarsToCents(dollars)
RoundTrip(p, cents) ==
  /\ client[p].pc = "idle"
  /\ client' = [client EXCEPT ![p] =
                  Returned("roundTrip", cents, dollarsToCents(centsToDollars(cents)))]
  /\ UNCHANGED << env, faults >>

(***************************************************************************)
(* getCarrierName and the payload of createShipment.                       *)
(***************************************************************************)
Undefined == "undefined"

\* const carriers = { 'UPS': 'United Parcel Service', ... }
carriers ==
  [code \in {"UPS", "USPS", "FEDEX", "FEDEX_GROUND", "FEDEX_EXPRESS", "DHL",
             "DHL_GLOBAL", "ONTRAC", "LASERSHIP"} |->
     CASE code = "UPS" -> "United Parcel Service"
       [] code = "USPS" -> "United States Postal Service"
       [] code = "FEDEX" -> "FedEx"
       [] code = "FEDEX_GROUND" -> "FedEx Ground"
       [] code = "FEDEX_EXPRESS" -> "FedEx Express"
       [] code = "DHL" -> "DHL Express"
       [] code = "DHL_GLOBAL" -> "DHL Global Mail"
       [] code = "ONTRAC" -> "OnTrac"
       [] code = "LASERSHIP" -> "LaserShip"]

\* carriers is an object literal: a name that is not its own property is
\* looked up in Object.prototype, whose members are functions and objects
ObjectPrototype ==
  [name \in {"constructor", "toString", "valueOf", "hasOwnProperty", "__proto__"} |->
     CASE name = "constructor" -> "[Function: Object]"
       [] name = "toString" -> "[Function: toString]"
       [] name = "valueOf" -> "[Function: valueOf]"
       [] name = "hasOwnProperty" -> "[Function: hasOwnProperty]"
       [] name = "__proto__" -> "[Object: null prototype] {}"]

\* carriers[carrierCode]
CarrierProperty(carrierCode) ==
  IF carrierCode \in DOMAIN carriers THEN carriers[carrierCode]
  ELSE IF carrierCode \in DOMAIN ObjectPrototype THEN ObjectPrototype[carrierCode]
  ELSE Undefined

\* return carriers[carrierCode] || carrierCode
getCarrierName(carrierCode) ==
  IF CarrierProperty(carrierCode) # Undefined
    THEN CarrierProperty(carrierCode)
    ELSE carrierCode

\* createShipment, lines 310-320: the payload of POST /api/shipments
ShipmentPayload(orderId, trackingNumber, carrierCode) ==
  [order_id |-> orderId, tracking_number |-> trackingNumber,
   carrier_code |-> carrierCode, carrier_name |-> getCarrierName(carrierCode)]

\* the codes of the table, codes that no object knows, and names that every
\* object inherits
CarrierCodes ==
  DOMAIN carriers \cup {"UNKNOWN", "PUROLATOR", "ups"} \cup {"constructor", "toString"}

CallGetCarrierName(p, carrierCode) ==
  /\ client[p].pc = "idle"
  /\ client' = [client EXCEPT ![p] =
                  Returned("getCarrierName", carrierCode, getCarrierName(carrierCode))]
  /\ UNCHANGED << env, faults >>

\* the function that createShipment hands to retryWithBackoff builds the payload
BuildShipmentPayload(p, carrierCode) ==
  /\ client[p].pc = "idle"
  /\ client' = [client EXCEPT ![p] =
                  Returned("createShipment.payload", carrierCode,
                           ShipmentPayload(1, "1Z999", carrierCode))]
  /\ UNCHANGED << env, faults >>

(***************************************************************************)
(* syncOffers: the offers of the request body, one for each product.       *)
(***************************************************************************)
\* product.quantity is absent (null or undefined)
Absent == -1

\* mutant: a product without stock is available too
StateCodeFromZero(quantity) == IF quantity # Absent /\ quantity >= 0 THEN "11" ELSE "21"

\* product.quantity > 0 ? '11' : '21'
StateCode(quantity) == IF quantity # Absent /\ quantity > 0 THEN "11" ELSE "21"

\* lines 177-189: the offer of a product (the fields the model keeps)
Offer(product) ==
  [product_id |-> product.sku,
   price |-> centsToDollars(product.price),
   quantity |-> IF product.quantity = Absent THEN 0 ELSE product.quantity,
   state_code |-> StateCode(product.quantity)]

\* products.map(product => ({ ... }))
Offers(batch) == [i \in 1 .. Len(batch) |-> Offer(batch[i])]

Quantities == {Absent, 0, 3}

Prices == {0, 1999}

\* the batches of up to MaxOffers products; the sku of a product is its
\* place in the batch
RECURSIVE Batches(_)
Batches(n) ==
  IF n = 0 THEN {<< >>}
  ELSE LET shorter == Batches(n - 1)
       IN shorter \cup
            { Append(b, [sku |-> n, price |-> price, quantity |-> quantity]) :
                b \in { s \in shorter : Len(s) = n - 1 },
                price \in Prices, quantity \in Quantities }

\* syncOffers(products): the first attempt posts the offers in one request
CallSyncOffers(p, batch) ==
  /\ client[p].pc = "idle"
  /\ client' = [client EXCEPT ![p] =
                  [StartCall(@, "syncOffers", maxRetriesDefault, NoDate)
                     EXCEPT !.arg = batch, !.body = Offers(batch)]]
  /\ UNCHANGED << env, faults >>

NextService ==
  \/ \E cents \in CentsSamples : CallCentsToDollars(Caller, cents)
  \/ \E dollars \in DollarSamples : CallDollarsToCents(Caller, dollars)
  \/ \E cents \in CentsSamples : RoundTrip(Caller, cents)
  \/ \E carrierCode \in CarrierCodes : CallGetCarrierName(Caller, carrierCode)
  \/ \E carrierCode \in CarrierCodes : BuildShipmentPayload(Caller, carrierCode)
  \/ \E batch \in Batches(MaxOffers) : CallSyncOffers(Caller, batch)
  \/ ResponseOk(Caller)
  \/ ResponseFail(Caller) /\ UNCHANGED faults
  \/ Return(Caller)

SpecService == InitJobs /\ [][NextService]_vars

(***************************************************************************)
(* jobs/scheduler.js: startScheduler, stopScheduler, getSchedulerStatus    *)
(* and the timers of node-cron, which invoke the jobs.                     *)
(***************************************************************************)
\* cron.schedule(expression, callback, { scheduled: true }): a started task
CronTask(name) == [job |-> name, running |-> TRUE]

\* mutant: the jobs are scheduled without the key too
KeyMissingIgnored(s) == FALSE

\* if (!process.env.MIRAKL_API_KEY) { ...; return; }
KeyMissing(s) == ~s.apiConfigured

\* startScheduler, lines 14-51: two new tasks take the place of the ones
\* the module held
startScheduler(s) ==
  IF KeyMissing(s)
    THEN [s EXCEPT !.calls = @ + 1]
    ELSE [s EXCEPT !.tasks = @ \o << CronTask("syncInventoryJob"), CronTask("pullOrdersJob") >>,
                   !.inventorySyncTask = Len(s.tasks) + 1,
                   !.orderPullTask = Len(s.tasks) + 2,
                   !.calls = @ + 1]

\* task.stop()
Stopped(tasks, i) ==
  IF i = 0 THEN tasks ELSE [tasks EXCEPT ![i] = [@ EXCEPT !.running = FALSE]]

\* stopScheduler, lines 71-85: the tasks the module holds are stopped
stopScheduler(s) ==
  [s EXCEPT !.tasks = Stopped(Stopped(s.tasks, s.inventorySyncTask), s.orderPullTask)]

\* getSchedulerStatus, lines 121-128
getSchedulerStatus(s) ==
  [running |-> s.inventorySyncTask # 0 \/ s.orderPullTask # 0,
   inventorySyncActive |-> s.inventorySyncTask # 0,
   orderPullActive |-> s.orderPullTask # 0,
   apiConfigured |-> s.apiConfigured]

StartScheduler ==
  /\ scheduler.calls < MaxStarts
  /\ scheduler' = startScheduler(scheduler)
  /\ UNCHANGED << remoteOrders, client, job, marketplace_orders, marketplace_sync_log, now, marketplace_shipments, products, faults >>

StopScheduler ==
  /\ scheduler' = stopScheduler(scheduler)
  /\ UNCHANGED << remoteOrders, client, job, marketplace_orders, marketplace_sync_log, now, marketplace_shipments, products, faults >>

\* the timer of a started task fires: its callback awaits the job
TimerFires(i, p) ==
  /\ i \in 1 .. Len(scheduler.tasks)
  /\ scheduler.tasks[i].running
  /\ IF scheduler.tasks[i].job = "syncInventoryJob"
       THEN StartInventoryJob(p)
       ELSE StartJob(p)

InitScheduler ==
  /\ remoteOrders = RemoteWith(MaxRemoteOrders)
  /\ client = [p \in Procs |-> IdleClient]
  /\ job = [p \in Procs |-> IdleJob]
  /\ marketplace_orders = << >>
  /\ marketplace_sync_log = << >>
  /\ now = 0
  /\ \E key \in BOOLEAN : scheduler = [NoScheduler EXCEPT !.apiConfigured = key]
  /\ marketplace_shipments = << >>
  /\ products = ProductsWith(MaxProducts)
  /\ faults = 0

NextScheduler ==
  \/ StartScheduler
  \/ StopScheduler
  \/ \E i \in 1 .. 2 * MaxStarts : StartedRuns < MaxRuns /\ TimerFires(i, Caller)
  \/ InsertLog(Caller)
  \/ SelectWatermark(Caller)
  \/ SelectProducts(Caller)
  \/ PageOk(Caller) /\ client'[Caller].contract
  \/ ResponseOk(Caller)
  \/ FetchDone(Caller)
  \/ SyncOffersDone(Caller)
  \/ MarkSynced(Caller)
  \/ SelectExisting(Caller)
  \/ UpsertOrder(Caller)
  \/ CloseSuccess(Caller)
  \/ CloseFailed(Caller)
  \/ JobReturn(Caller)

SpecScheduler == InitScheduler /\ [][NextScheduler]_vars

(***************************************************************************)
(* The inventory sync next to the product mapping: one caller runs         *)
(* syncInventoryJob while PUT and DELETE /api/product-mapping/:id map and  *)
(* unmap the products; the remote and the storage fail.                    *)
(***************************************************************************)
\* PUT /api/product-mapping/:id: UPDATE products SET mirakl_sku = $1
PutMapping(i, sku) ==
  /\ i \in 1 .. Len(products)
  /\ products[i].mirakl_sku # sku
  /\ products' = [products EXCEPT ![i] = [@ EXCEPT !.mirakl_sku = sku]]
  /\ UNCHANGED << remoteOrders, client, job, marketplace_orders, marketplace_sync_log, now, scheduler, marketplace_shipments, faults >>

\* DELETE /api/product-mapping/:id: UPDATE products SET mirakl_sku = NULL,
\* last_synced_at = NULL
DeleteMapping(i) ==
  /\ i \in 1 .. Len(products)
  /\ products[i].mirakl_sku # "NULL" \/ products[i].last_synced_at # NoDate
  /\ products' = [products EXCEPT ![i] =
                    [@ EXCEPT !.mirakl_sku = "NULL", !.last_synced_at = NoDate]]
  /\ UNCHANGED << remoteOrders, client, job, marketplace_orders, marketplace_sync_log, now, scheduler, marketplace_shipments, faults >>

InitInventory ==
  /\ remoteOrders = RemoteWith(MaxRemoteOrders)
  /\ client = [p \in Procs |-> IdleClient]
  /\ job = [p \in Procs |-> IdleJob]
  /\ marketplace_orders = << >>
  /\ marketplace_sync_log = << >>
  /\ now = 0
  /\ scheduler = NoScheduler
  /\ marketplace_shipments = << >>
  /\ products = ProductsWith(MaxProducts + 1)
  /\ faults = 0

NextInventory ==
  \/ StartedRuns < MaxRuns /\ StartInventoryJob(Caller)
  \/ InsertLog(Caller)
  \/ SelectProducts(Caller)
  \/ ResponseOk(Caller)
  \/ RemoteFault(Caller)
  \/ SyncOffersDone(Caller)
  \/ MarkSynced(Caller)
  \/ CloseSuccess(Caller)
  \/ CloseFailed(Caller)
  \/ JobReturn(Caller)
  \/ \E i \in 1 .. MaxProducts + 1 : PutMapping(i, "sku")
  \/ \E i \in 1 .. MaxProducts + 1 : DeleteMapping(i)

SpecInventory == InitInventory /\ [][NextInventory]_vars

(***************************************************************************)
(* The ingestion over time against a marketplace that moves its orders on: *)
(* one caller runs pullOrdersJob again and again while the clock advances  *)
(* and the marketplace updates its orders.                                 *)
(***************************************************************************)
NextUpdates ==
  \/ StartedRuns < MaxWatermarkRuns /\ StartJob(Caller)
  \/ InsertLog(Caller)
  \/ SelectWatermark(Caller)
  \/ PageOk(Caller) /\ client'[Caller].contract
  \/ FetchDone(Caller)
  \/ SelectExisting(Caller)
  \/ UpsertOrder(Caller)
  \/ CloseSuccess(Caller)
  \/ CloseFailed(Caller)
  \/ JobReturn(Caller)
  \/ Tick
  \/ \E i \in 1 .. MaxRemoteOrders : \E state \in RemoteStates : RemoteUpdate(i, state)

SpecUpdates == InitJobs /\ [][NextUpdates]_vars

(***************************************************************************)
(* Concurrent requests: the accept and ship routes are requested for a     *)
(* stored order while another request for it is being served.              *)
(***************************************************************************)
\* the orders of the marketplace have been ingested
InitStored ==
  /\ remoteOrders = RemoteWith(MaxRemoteOrders)
  /\ client = [p \in Procs |-> IdleClient]
  /\ job = [p \in Procs |-> IdleJob]
  /\ marketplace_orders = [i \in 1 .. MaxRemoteOrders |-> OrderRow(remoteOrders[i])]
  /\ marketplace_sync_log = << >>
  /\ now = 0
  /\ scheduler = NoScheduler
  /\ marketplace_shipments = << >>
  /\ products = ProductsWith(MaxProducts)
  /\ faults = 0

NextRequests ==
  \E p \in Procs :
    \/ \E id \in 1 .. MaxRemoteOrders : StartAccept(p, id)
    \/ AcceptSelect(p)
    \/ AcceptOrderDone(p)
    \/ AcceptUpdate(p)
    \/ \E id \in 1 .. MaxRemoteOrders : \E complete \in BOOLEAN : StartShip(p, id, complete)
    \/ ShipSelect(p)
    \/ CreateShipmentDone(p)
    \/ ShipUpdate(p)
    \/ ShipInsert(p)
    \/ ResponseOk(p)
    \/ RemoteFault(p)
    \/ JobReturn(p)

SpecRequests == InitStored /\ [][NextRequests]_vars

(***************************************************************************)
(* fetchOrders alone: one caller calls fetchOrders again and again; every  *)
(* request it sends is answered or fails, and every delay it waits for     *)
(* elapses.                                                                *)
(***************************************************************************)
\* the remote holds no order, one order, or orders up to and just over
\* MaxFullPages full pages
FetchSizes == { maxPerPage * k + d : k \in {0, MaxFullPages}, d \in {0, 1} }

InitFetch ==
  /\ \E n \in FetchSizes : remoteOrders = RemoteWith(n)
  /\ client = [p \in Procs |-> IdleClient]
  /\ job = [p \in Procs |-> IdleJob]
  /\ marketplace_orders = << >>
  /\ marketplace_sync_log = << >>
  /\ now = 0
  /\ scheduler = NoScheduler
  /\ marketplace_shipments = << >>
  /\ products = ProductsWith(MaxProducts)
  /\ faults = 0

\* the failures of a page request: a rate limit, a server fault and a
\* failure that is not retried
FetchStatuses == {429, 500, 400}

NextFetch ==
  \/ CallFetchOrders(Caller, NoDate)
  \/ PageOk(Caller)
  \/ ResponseFailWith(Caller, FetchStatuses) /\ UNCHANGED faults
  \/ BackoffElapsed(Caller)
  \/ PageDelayElapsed(Caller)
  \/ Return(Caller)

\* axios ends every request (timeout: 30000) and the timers of delay fire
SpecFetch == InitFetch /\ [][NextFetch]_vars /\ WF_vars(NextFetch)

(***************************************************************************)
(* Properties of the retry executor and of the client operations.          *)
(***************************************************************************)
Retryable(status) == status = 429 \/ (status >= 500 /\ status < 600)

Failed(status) == status # Ok /\ status # Pending

LastTried(c) == c.tried[Len(c.tried)]

\* C1: for syncOffers, acceptOrder, createShipment, getOfferBySku and
\* updateInventory, a rate-limit or server-fault error reaches the caller
\* only after maxAttempts attempts of the remote call have been made.
C1_RetryableErrorOnlyAfterMaxAttempts ==
  \A p \in Procs :
    LET c == client[p] IN
      (/\ c.op \in ClientOps
       /\ c.pc = "done"
       /\ c.outcome = "threw"
       /\ c.error.kind \in {"Mirakl rate limit exceeded", "Mirakl server error"})
      => Len(c.tried) = c.maxRetries

\* C2: with maxAttempts = 3, an operation that fails with a rate-limit signal
\* on its first two attempts and succeeds on the third is attempted exactly
\* 3 times, with exactly 2 delays, one before each retry, and the call
\* returns the result of the third attempt.
C2_TwoRateLimitsThenSuccess ==
  \A p \in Procs :
    LET c == client[p] IN
      (/\ c.op = "retryWithBackoff"
       /\ c.maxRetries = 3
       /\ Len(c.tried) >= 2
       /\ c.tried[1] = 429 /\ c.tried[2] = 429)
      => /\ Len(c.tried) = 2 => (c.pc = "backoff" /\ Len(c.waits) = 2)
         /\ Len(c.tried) = 3 => Len(c.waits) = 2
         /\ (Len(c.tried) = 3 /\ c.tried[3] = Ok) =>
              (c.pc \in {"done", "idle"} /\ c.outcome = "returned" /\ c.value = 3)

C2_Witness ==
  \E p \in Procs :
    /\ client[p].op = "retryWithBackoff" /\ client[p].pc = "done"
    /\ client[p].maxRetries = 3
    /\ client[p].tried = << 429, 429, Ok >>
    /\ client[p].outcome = "returned"

\* C3: when every attempt fails with a retryable class, retryWithBackoff
\* makes exactly maxAttempts attempts and then raises the failure of the
\* last attempt itself; through fetchOrders an always-rate-limited remote
\* ends in a rate-limit-exceeded error.
C3_ExhaustionRaisesLastFailure ==
  \A p \in Procs :
    LET c == client[p] IN
      (/\ c.op \in {"retryWithBackoff", "fetchOrders"}
       /\ c.pc = "done"
       /\ Len(c.tried) >= 1
       /\ \A i \in 1 .. Len(c.tried) : Retryable(c.tried[i]))
      => /\ Len(c.tried) = c.maxRetries
         /\ Len(c.waits) = c.maxRetries - 1
         /\ c.outcome = "threw"
         /\ c.op = "retryWithBackoff" =>
              /\ c.error.kind = "axios"
              /\ c.error.req = c.maxRetries
              /\ c.error.status = LastTried(c)
         /\ (c.op = "fetchOrders" /\ LastTried(c) = 429) =>
              c.error.kind = "Mirakl rate limit exceeded"

C3_Witness ==
  \E p \in Procs :
    /\ client[p].op = "fetchOrders" /\ client[p].pc = "done"
    /\ client[p].tried = << 429, 429, 429 >>
    /\ client[p].error.kind = "Mirakl rate limit exceeded"

\* C4: after an attempt that fails with a non-retryable failure (a status
\* other than 429 and outside 500..599, or no status) there is no further
\* attempt and no delay; a bad request on the first attempt gives exactly
\* one attempt and a bad-request error for the caller.
C4_NonRetryableStopsAtOnce ==
  \A p \in Procs :
    LET c == client[p] IN
      (/\ c.op # "none"
       /\ Len(c.tried) >= 1
       /\ Failed(LastTried(c))
       /\ ~ Retryable(LastTried(c)))
      => /\ c.pc \in {"done", "idle"}
         /\ c.outcome = "threw"
         /\ Len(c.waits) = Len(c.tried) - 1
         /\ c.tried = << 400 >> =>
              /\ c.waits = << >>
              /\ (c.op = "fetchOrders" /\ c.received = << >>) => c.requested = << 0 >>
              /\ IF c.op = "retryWithBackoff"
                   THEN c.error.kind = "axios" /\ c.error.status = 400
                   ELSE c.error.kind = "Mirakl bad request"

C4_Witness ==
  \E p \in Procs :
    /\ client[p].op = "fetchOrders" /\ client[p].pc = "done"
    /\ client[p].tried = << 400 >> /\ client[p].requested = << 0 >>
    /\ client[p].error.kind = "Mirakl bad request"

(***************************************************************************)
(* Properties of fetchOrders.                                              *)
(***************************************************************************)
RECURSIVE ConcatPages(_, _, _)
\* the pages of the given lengths, taken at offsets 0, maxPerPage, ...
ConcatPages(listing, lens, k) ==
  IF k = 0 THEN << >>
  ELSE ConcatPages(listing, lens, k - 1) \o Page(listing, maxPerPage * (k - 1), lens[k])

OffsetsOf(c) == { c.requested[i] : i \in 1 .. Len(c.requested) }

PagesNeeded(n) == Max(1, CeilDiv(n, maxPerPage))

\* C5: against a remote that holds N orders, reports totalCount = N on
\* every page and returns full pages until the last, fetchOrders returns
\* exactly the N orders, each once and in page order, and its page requests
\* are those of the offsets 0, 100, ... of max(1, ceil(N/100)) pages, one
\* successful request each.
C5_PaginationComplete ==
  \A p \in Procs :
    LET c == client[p]
        all == MatchingOrders(c.lastUpdated)
    IN (/\ c.op = "fetchOrders"
        /\ c.pc = "done"
        /\ c.outcome = "returned"
        /\ c.contract)
       => /\ c.returned = all
          /\ Len(c.received) = PagesNeeded(Len(all))
          /\ OffsetsOf(c) = { maxPerPage * (k - 1) : k \in 1 .. PagesNeeded(Len(all)) }
          /\ Len(c.requested) = Len(c.received) => Len(c.requested) = PagesNeeded(Len(all))

C5_Witness ==
  \E p \in Procs :
    /\ client[p].op = "fetchOrders" /\ client[p].pc = "done"
    /\ client[p].contract
    /\ Len(remoteOrders) = 250
    /\ Len(client[p].returned) = 250
    /\ client[p].requested = << 0, 100, 200 >>
    /\ client[p].received = << 100, 100, 50 >>

\* C6: a page of fewer than 100 items is the last page requested, whatever
\* totalCount the remote reported: fetchOrders returns what it accumulated.
C6_ShortPageStops ==
  \A p \in Procs :
    LET c == client[p] IN
      c.op = "fetchOrders" =>
        \A i \in 1 .. Len(c.received) :
          c.received[i] < maxPerPage =>
            /\ i = Len(c.received)
            /\ c.pc \in {"done", "idle"}
            /\ c.outcome = "returned"
            /\ c.returned = c.allOrders
            /\ c.requested[Len(c.requested)] = maxPerPage * (i - 1)

C6_Witness ==
  \E p \in Procs :
    LET c == client[p] IN
      /\ c.op = "fetchOrders" /\ c.pc = "done"
      /\ Len(c.received) = 2
      /\ c.received[2] < maxPerPage
      /\ c.totalCount > c.offset

\* C7: retry in fetchOrders is per page: the attempts of the running
\* retryWithBackoff invocation all request the same offset, every request
\* before them was for a lower offset, and the accumulated result holds the
\* orders of each page received exactly once.
C7_RetryIsPerPage ==
  \A p \in Procs :
    LET c == client[p]
        n == Len(c.requested)
        t == Len(c.tried)
    IN c.op = "fetchOrders" =>
         /\ t <= n
         /\ \A i \in 1 .. n :
              IF i > n - t THEN c.requested[i] = c.requested[n]
                           ELSE c.requested[i] < c.requested[n]
         /\ c.allOrders = ConcatPages(MatchingOrders(c.lastUpdated), c.received,
                                      Len(c.received))

C7_Witness ==
  \E p \in Procs :
    LET c == client[p] IN
      /\ c.op = "fetchOrders"
      /\ c.requested = << 0, 100, 100 >>
      /\ c.tried = << 500, Ok >>
      /\ Len(c.allOrders) = 2 * maxPerPage

\* C8: the page requests of one fetchOrders call are sequential: the first
\* has offset 0, the offset advances by exactly 100 per page received
\* whatever the page held, a request that is awaited or being retried is
\* for the offset after the pages received, and only the last request sent
\* can be unanswered.
C8_SequentialOffsets ==
  \A p \in Procs :
    LET c == client[p] IN
      (c.op = "fetchOrders" /\ c.requested # << >>) =>
        /\ c.requested[1] = 0
        /\ \A i \in 1 .. Len(c.requested) - 1 :
             c.requested[i + 1] \in {c.requested[i], c.requested[i] + maxPerPage}
        /\ c.offset = maxPerPage * Len(c.received)
        /\ c.pc \in {"inflight", "backoff"} =>
             c.requested[Len(c.requested)] = maxPerPage * Len(c.received)
        /\ \A i \in 1 .. Len(c.tried) : c.tried[i] = Pending => i = Len(c.tried)
        /\ c.pc = "inflight" <=> LastTried(c) = Pending

C8_Witness ==
  \E p \in Procs :
    LET c == client[p] IN
      /\ c.op = "fetchOrders" /\ c.pc = "done"
      /\ c.received = << 100, 49 >>
      /\ c.offset = 200
      /\ c.requested = << 0, 100 >>

\* C9: fetchOrders is all-or-nothing: when the request of a page fails
\* without being retried, the call raises an error and returns none of the
\* orders of the pages it had received; every call starts at offset 0.
C9_AllOrNothing ==
  \A p \in Procs :
    LET c == client[p] IN
      c.op = "fetchOrders" =>
        /\ (c.pc = "done" /\ Failed(LastTried(c))) =>
             (c.outcome = "threw" /\ c.returned = << >> /\ c.error.kind # "none")
        /\ c.outcome = "threw" => c.returned = << >>
        /\ c.requested # << >> => c.requested[1] = 0

C9_Witness ==
  \E p \in Procs :
    LET c == client[p] IN
      /\ c.op = "fetchOrders" /\ c.pc = "done"
      /\ c.outcome = "threw"
      /\ Len(c.received) >= 1 /\ c.allOrders # << >>
      /\ c.returned = << >>

(***************************************************************************)
(* Properties of the order ingestion.                                      *)
(***************************************************************************)
RowsOf(table, id) == { i \in 1 .. Len(table) : table[i].mirakl_order_id = id }

UniqueOrderIds ==
  \A i, k \in 1 .. Len(marketplace_orders) :
    marketplace_orders[i].mirakl_order_id = marketplace_orders[k].mirakl_order_id => i = k

Upserted(p) == job[p].importedCount + job[p].updatedCount

\* a step in which the upsert of the order at hand of run p succeeds leaves
\* exactly one row of that order id, holding the state of that upsert, and
\* leaves every other row as it was
UpsertLeavesLatest(p) ==
  (job[p].pc = "upsert" /\ Upserted(p)' = Upserted(p) + 1) =>
    LET order == client[p].returned[job[p].idx]
        rows == RowsOf(marketplace_orders', order.order_id)
    IN /\ Cardinality(rows) = 1
       /\ \A i \in rows : marketplace_orders'[i].order_state = order.order_state
       /\ \A i \in 1 .. Len(marketplace_orders) :
            marketplace_orders[i].mirakl_order_id # order.order_id =>
              marketplace_orders'[i] = marketplace_orders[i]
       /\ Len(marketplace_orders') =
            Len(marketplace_orders) + (IF RowsOf(marketplace_orders, order.order_id) = {} THEN 1 ELSE 0)

\* C10: after any sequence of ingestion runs and for every interleaving of
\* the upserts of overlapping runs, marketplace_orders holds at most one row
\* per marketplace order id, and an upsert of an order id that is already
\* stored leaves its one row holding the state of that later upsert.
C10_IdempotentUpsert ==
  /\ [] UniqueOrderIds
  /\ [][\A p \in Procs : UpsertLeavesLatest(p)]_vars

C10_Witness ==
  \E p, q \in Procs :
    /\ p # q
    /\ Upserted(p) = 1 /\ Upserted(q) = 1
    /\ job[q].updatedCount = 1
    /\ client[p].returned[1].order_id = client[q].returned[1].order_id
    /\ client[p].returned[1].order_state # client[q].returned[1].order_state
    /\ Len(marketplace_orders) = 1
    /\ marketplace_orders[1].order_state = client[q].returned[1].order_state

\* C11: re-ingestion never resets the timestamps of the local actions: once
\* accepted_at or shipped_at of a stored order is set, no step of a later
\* run of pullOrdersJob or of GET /pull-orders (nor any other step) changes
\* it, whatever the remote returns for the order; stored rows stay in place.
C11_IngestionKeepsLocalTimestamps ==
  [][/\ Len(marketplace_orders') >= Len(marketplace_orders)
     /\ \A i \in 1 .. Len(marketplace_orders) :
          LET row == marketplace_orders[i]
              after == marketplace_orders'[i]
          IN /\ after.mirakl_order_id = row.mirakl_order_id
             /\ row.accepted_at # NoDate => after.accepted_at = row.accepted_at
             /\ row.shipped_at # NoDate => after.shipped_at = row.shipped_at]_vars

C11_Witness ==
  \E p \in Procs : \E i \in 1 .. Len(marketplace_orders) :
    /\ job[p].handler \in {"pullOrdersJob", "pullOrdersRoute"}
    /\ job[p].upserted >= 1
    /\ marketplace_orders[i].accepted_at # NoDate
    /\ marketplace_orders[i].shipped_at # NoDate
    /\ marketplace_orders[i].order_state \notin {"SHIPPED"}

(***************************************************************************)
(* Properties of the runs over time.                                       *)
(***************************************************************************)
\* the fetch of the running pullOrdersJob of p has returned
FetchReturned(p) ==
  /\ job[p].handler = "pullOrdersJob"
  /\ client[p].op = "fetchOrders" /\ client[p].pc = "done"
  /\ client[p].outcome = "returned"

ReturnedIds(p) == { client[p].returned[i].order_id : i \in 1 .. Len(client[p].returned) }

\* C12: order ingestion is at-least-once: an order that the fetch of a run
\* returned and that was not stored (its upsert failed) is fetched again by
\* a later run, even if the remote does not update the order in between.
\* With a remote that leaves its orders as they are, the first successful
\* run has fetched every order of the remote: in every later run whose
\* fetch has returned, each order of the remote is stored or among the
\* orders returned.
C12_UnstoredOrderIsFetchedAgain ==
  \A p \in Procs :
    (FetchReturned(p) /\ LastSuccess(marketplace_sync_log, "orders") # NoDate)
    => \A i \in 1 .. Len(remoteOrders) :
         \/ HasOrder(marketplace_orders, remoteOrders[i].order_id)
         \/ remoteOrders[i].order_id \in ReturnedIds(p)

(***************************************************************************)
(* Properties of one ingestion run.                                        *)
(***************************************************************************)
\* the fetched orders of the run of p that are not in the table
NotStored(p) ==
  { i \in 1 .. Len(client[p].returned) :
      ~ HasOrder(marketplace_orders, client[p].returned[i].order_id) }

\* C13: per-order isolation in pullOrdersJob: a step of the loop over the
\* fetched orders, failing or not, goes on to the next order or, after the
\* last one, to the closing of the entry as success, and never to the catch
\* of the job; when the loop is over every fetched order has been visited
\* and only the orders whose queries failed are missing from the table.
C13_PerOrderIsolation ==
  /\ [][\A p \in Procs :
          (/\ job[p].handler = "pullOrdersJob"
           /\ job[p].pc \in {"select", "upsert"}
           /\ job'[p] # job[p])
          => /\ job'[p].pc \in {"select", "upsert", "closeSuccess"}
             /\ job'[p].error = "none"
             /\ job'[p].pc = "select" => job'[p].idx = job[p].idx + 1
             /\ job'[p].pc = "closeSuccess" => job'[p].idx = Len(client[p].returned)]_vars
  /\ [](\A p \in Procs :
          (job[p].handler = "pullOrdersJob" /\ job[p].pc = "closeSuccess" /\ FetchReturned(p))
          => /\ job[p].idx = Len(client[p].returned)
             /\ Cardinality(NotStored(p)) <= Len(client[p].returned) - job[p].upserted)

C13_Witness ==
  \E p \in Procs :
    /\ job[p].handler = "pullOrdersJob" /\ job[p].pc = "done"
    /\ job[p].success = "true"
    /\ marketplace_sync_log[job[p].syncLogId].status = "success"
    /\ Len(client[p].returned) = 2
    /\ NotStored(p) = {1}
    /\ job[p].upserted = 1

\* the fetch of the running pullOrdersJob of p has thrown
FetchThrew(p) ==
  /\ job[p].handler = "pullOrdersJob"
  /\ client[p].op = "fetchOrders" /\ client[p].pc = "done"
  /\ client[p].outcome = "threw"
  /\ job[p].pc # "fetching"

\* C14: when fetchOrders fails in pullOrdersJob (a non-retryable failure or
\* the retries exhausted), the run upserts no order and leaves the table of
\* the orders as it is, sends the UPDATE that closes its sync-log entry as
\* failed with the error message (the entry is failed with that message
\* once the database has executed it), and returns success = false with the
\* error.
C14_FetchFailureFailsTheRun ==
  /\ [](\A p \in Procs :
          FetchThrew(p)
          => /\ job[p].pc \in {"closeFailed", "done"}
             /\ job[p].upserted = 0 /\ job[p].idx = 0
             /\ job[p].error = client[p].error.kind /\ job[p].error # "none"
             /\ job[p].success # "true"
             /\ marketplace_sync_log[job[p].syncLogId].status \in {"running", "failed"}
             /\ job[p].pc = "closeFailed" =>
                  marketplace_sync_log[job[p].syncLogId].status = "running"
             /\ job[p].pc = "done" =>
                  /\ job[p].success = "false"
                  /\ marketplace_sync_log[job[p].syncLogId].status = "failed" =>
                       marketplace_sync_log[job[p].syncLogId].error_message = job[p].error)
  /\ [][\A p \in Procs :
          FetchThrew(p)
          => /\ marketplace_orders' = marketplace_orders
             /\ (job[p].pc = "closeFailed" /\ job'[p].pc = "done" /\ faults' = faults)
                => marketplace_sync_log'[job[p].syncLogId].status = "failed"]_vars

C14_Witness ==
  \E p \in Procs :
    /\ FetchThrew(p) /\ job[p].pc = "done"
    /\ client[p].tried = << 500, 500, 500 >>
    /\ job[p].success = "false" /\ job[p].error = "Mirakl server error"
    /\ marketplace_sync_log[job[p].syncLogId].status = "failed"
    /\ marketplace_sync_log[job[p].syncLogId].error_message = "Mirakl server error"

\* since is what the log makes the watermark: absent without a successful
\* order sync, else the completion time of one that none completed after
IsWatermark(log, since) ==
  LET good == { i \in 1 .. Len(log) :
                  log[i].sync_type = "orders" /\ log[i].status = "success" }
  IN IF since = NoDate
       THEN good = {}
       ELSE /\ \E i \in good : log[i].completed_at = since
            /\ \A i \in good : log[i].completed_at <= since

\* C15: the since value that a run of pullOrdersJob passes to fetchOrders
\* is the completion time of the most recent sync-log entry of type orders
\* and status success, and is absent without such an entry; entries that
\* are running or failed and entries of type offers do not count, and the
\* closing of an entry as failed leaves the watermark where it was.
C15_Watermark ==
  /\ [](\A p \in Procs :
          (job[p].handler = "pullOrdersJob" /\ job[p].pc = "fetching")
          => /\ client[p].op = "fetchOrders"
             /\ client[p].lastUpdated = job[p].lastUpdated
             /\ IsWatermark(marketplace_sync_log, client[p].lastUpdated))
  /\ [][\A p \in Procs :
          (job[p].pc = "closeFailed" /\ job'[p].pc = "done")
          => \A since \in NoDate .. MaxClock :
               IsWatermark(marketplace_sync_log', since)
                 <=> IsWatermark(marketplace_sync_log, since)]_vars

C15_Witness ==
  \E p \in Procs :
    /\ job[p].handler = "pullOrdersJob" /\ job[p].pc = "fetching"
    /\ client[p].lastUpdated # NoDate
    /\ \E i \in 1 .. Len(marketplace_sync_log) :
         /\ marketplace_sync_log[i].sync_type = "orders"
         /\ marketplace_sync_log[i].status = "failed"
         /\ marketplace_sync_log[i].completed_at > client[p].lastUpdated

(***************************************************************************)
(* Properties of the sync log.                                             *)
(***************************************************************************)
IsJob(p) == job[p].handler \in {"pullOrdersJob", "syncInventoryJob"}

\* A step leaves the rows of the sync log in place, adds at most one row,
\* a running one of the invocation that sent the INSERT, and changes a row
\* only from running to success or failed, setting completed_at.
SyncLogStep ==
  /\ Len(marketplace_sync_log') \in {Len(marketplace_sync_log), Len(marketplace_sync_log) + 1}
  /\ Len(marketplace_sync_log') > Len(marketplace_sync_log) =>
       LET row == marketplace_sync_log'[Len(marketplace_sync_log')] IN
         /\ row.status = "running" /\ row.completed_at = NoDate
         /\ \E p \in Procs :
              /\ IsJob(p) /\ job[p].pc = "insertLog" /\ job[p].syncLogId = 0
              /\ job'[p].syncLogId = Len(marketplace_sync_log')
              /\ row.sync_type = SyncType(job[p].handler)
  /\ \A i \in 1 .. Len(marketplace_sync_log) :
       LET row == marketplace_sync_log[i]
           after == marketplace_sync_log'[i]
       IN after # row =>
            /\ row.status = "running"
            /\ after.status \in {"success", "failed"}
            /\ after.completed_at # NoDate
            /\ after.sync_type = row.sync_type

\* an invocation holds the one row it inserted from its INSERT on
HasItsRow(p) ==
  /\ job[p].syncLogId \in 1 .. Len(marketplace_sync_log)
  /\ marketplace_sync_log[job[p].syncLogId].sync_type = SyncType(job[p].handler)
  /\ \A q \in Procs : (q # p /\ job[q].pc # "idle") => job[q].syncLogId # job[p].syncLogId

\* C16, as the claim states it: every invocation of pullOrdersJob or of
\* syncInventoryJob inserts exactly one sync-log row, in status running; a
\* row changes only once, from running to success or to failed, and no row
\* is deleted.
C16_EveryInvocationInsertsOneRow ==
  /\ [](\A p \in Procs : (IsJob(p) /\ job[p].pc # "insertLog") => HasItsRow(p))
  /\ [][SyncLogStep]_vars

\* C16, amended: an invocation of pullOrdersJob or of syncInventoryJob
\* inserts at most one sync-log row, in status running: exactly one when the
\* database executes its INSERT, and none when the INSERT fails, in which
\* case the invocation returns its failure at once; a row changes only
\* once, from running to success or to failed, and no row is deleted.
C16_SyncLogLifecycle ==
  /\ [](\A p \in Procs :
          (IsJob(p) /\ job[p].pc # "insertLog")
          => \/ HasItsRow(p)
             \/ job[p].syncLogId = 0 /\ job[p].pc = "done" /\ job[p].success = "false")
  /\ [][SyncLogStep]_vars

C16_Witness ==
  \E p \in Procs :
    /\ job[p].handler = "syncInventoryJob" /\ job[p].pc = "done"
    /\ job[p].syncLogId = 0 /\ job[p].success = "false"
    /\ Len(marketplace_sync_log) = 1
    /\ marketplace_sync_log[1].status = "success"

C18_TwoTerminalOutcomes ==
  \A p \in Procs :
    client[p].pc = "done"
    => /\ client[p].outcome \in {"returned", "threw"}
       /\ Len(client[p].tried) >= 1
       /\ client[p].outcome = "returned" => client[p].tried[Len(client[p].tried)] = Ok
       /\ client[p].outcome = "threw"
          => /\ client[p].tried[Len(client[p].tried)] \notin {Ok, Pending}
             /\ client[p].error # NoError

ServerFault(status) == status >= 500 /\ status <= 599

\* C19: a failure of fetchOrders with a status of the 5xx class is retried
\* by the executor up to the last attempt and, when the last attempt fails
\* with a 5xx too, reaches the caller of fetchOrders as 'Mirakl server
\* error', never as 'Mirakl operation failed'.
C19_ServerFaultsRaisedAsServerError ==
  \A p \in Procs :
    LET c == client[p] IN
      /\ (c.op = "fetchOrders" /\ c.pc \in {"backoff", "done"} /\ Len(c.tried) >= 1
          /\ ServerFault(c.tried[Len(c.tried)]))
         => IF Len(c.tried) < c.maxRetries
              THEN c.pc = "backoff"
              ELSE /\ c.pc = "done" /\ c.outcome = "threw"
                   /\ c.error.kind = "Mirakl server error"

(***************************************************************************)
(* Properties of the backoff.                                              *)
(***************************************************************************)
\* C20: the wait before attempt n+1 is, after a rate-limited attempt n,
\* hint * 1000 ms when the remote sent a retry hint of hint seconds and
\* 2^n * baseDelay ms otherwise (2000 ms after attempt 1, 4000 ms after
\* attempt 2); after a 5xx attempt n it is 2^n * baseDelay ms with and
\* without a hint.
C20_BackoffWait ==
  \A p \in Procs :
    LET c == client[p]
        n == c.attempt
        exponential == IF n = 1 THEN 2000 ELSE IF n = 2 THEN 4000 ELSE (2 ^ n) * baseDelay
    IN c.pc = "backoff"
       => /\ Len(c.waits) = n
          /\ c.tried[n] = c.error.status
          /\ c.error.status = 429
             => c.waits[n] = IF c.error.retryAfter # NoHint
                               THEN c.error.retryAfter * 1000
                               ELSE exponential
          /\ (c.error.status >= 500 /\ c.error.status <= 599)
             => c.waits[n] = exponential

C20_Witness ==
  \E p \in Procs :
    /\ client[p].pc = "backoff" /\ client[p].attempt = 2
    /\ client[p].tried = << 429, 500 >>
    /\ client[p].error.retryAfter = 1
    /\ client[p].waits = << 1000, 4000 >>

C22_JobsNeverReject ==
  \A p \in Procs :
    (IsJob(p) /\ job[p].pc = "done")
    => /\ job[p].success \in {"true", "false"}
       /\ job[p].success = "false" <=> job[p].error # "none"
       /\ job[p].success = "true"
          => marketplace_sync_log[job[p].syncLogId].status = "success"

C22_Witness ==
  \E p \in Procs :
    /\ job[p].handler = "syncInventoryJob" /\ job[p].pc = "done"
    /\ job[p].success = "false" /\ job[p].error = "Mirakl bad request"
    /\ marketplace_sync_log[job[p].syncLogId].status = "running"

(***************************************************************************)
(* Properties of the synchronous methods of the service.                   *)
(***************************************************************************)
\* the decimal string of cents / 100 with two fraction digits
TwoFractionDigits(cents) ==
  Digits(cents \div 100)
    \o << ".", DigitChars[((cents % 100) \div 10) + 1], DigitChars[(cents % 10) + 1] >>

\* C23: for an integer c of [0, 10 000 000] centsToDollars(c) is the
\* decimal string of c / 100 with exactly two fraction digits, and
\* dollarsToCents(centsToDollars(c)) = c.
C23_RoundTrip ==
  \A p \in Procs :
    LET c == client[p] IN
      /\ (c.op = "centsToDollars" /\ c.pc = "done")
         => /\ c.arg \in 0 .. CentsLimit
            /\ c.value = TwoFractionDigits(c.arg)
            /\ c.arg = 0 => c.value = << "0", ".", "0", "0" >>
            /\ c.arg = 1 => c.value = << "0", ".", "0", "1" >>
            /\ c.arg = 9999 => c.value = << "9", "9", ".", "9", "9" >>
      /\ (c.op = "roundTrip" /\ c.pc = "done") => c.value = c.arg

C23_Witness ==
  \E p \in Procs :
    /\ client[p].op = "roundTrip" /\ client[p].pc = "done"
    /\ client[p].arg = CentsLimit /\ client[p].value = CentsLimit

\* C24: getCarrierName gives for each code of the static table its full
\* name (UPS: United Parcel Service) and returns every code that is not in
\* the table unchanged; the payload that createShipment builds carries
\* carrier_name = getCarrierName(carrierCode) and carrier_code = carrierCode.
C24_CarrierName ==
  \A p \in Procs :
    LET c == client[p] IN
      /\ (c.op = "getCarrierName" /\ c.pc = "done")
         => /\ c.arg \in DOMAIN carriers => c.value = carriers[c.arg]
            /\ c.arg = "UPS" => c.value = "United Parcel Service"
            /\ c.arg \notin DOMAIN carriers => c.value = c.arg
      /\ (c.op = "createShipment.payload" /\ c.pc = "done")
         => /\ c.value.carrier_code = c.arg
            /\ c.value.carrier_name = getCarrierName(c.arg)

\* C25: syncOffers sends the whole batch in one request per attempt, one
\* offer per product in the order of the products, the price of an offer
\* being centsToDollars(product.price) and its state code '11' exactly when
\* the quantity of the product is above 0, '21' otherwise (quantity 0 or
\* absent).
C25_SyncOffersPayload ==
  \A p \in Procs :
    LET c == client[p] IN
      (c.op = "syncOffers" /\ c.pc # "idle")
      => /\ Len(c.tried) = c.attempt
         /\ Len(c.body) = Len(c.arg)
         /\ \A i \in 1 .. Len(c.arg) :
              /\ c.body[i].product_id = c.arg[i].sku
              /\ c.body[i].price = centsToDollars(c.arg[i].price)
              /\ c.body[i].price = TwoFractionDigits(c.arg[i].price)
              /\ c.body[i].state_code = "11" <=> c.arg[i].quantity \in 1 .. 1000000
              /\ c.body[i].state_code = "21" <=> c.arg[i].quantity \in {Absent, 0}

C25_Witness ==
  \E p \in Procs :
    /\ client[p].op = "syncOffers" /\ client[p].pc = "done"
    /\ client[p].outcome = "returned" /\ client[p].tried = << Ok >>
    /\ Len(client[p].body) = 2
    /\ client[p].arg[1].quantity = 3 /\ client[p].body[1].state_code = "11"
    /\ client[p].arg[2].quantity = Absent /\ client[p].body[2].state_code = "21"
    /\ client[p].body[1].price = << "1", "9", ".", "9", "9" >>

(***************************************************************************)
(* Properties of the scheduler.                                            *)
(***************************************************************************)
\* C26: without MIRAKL_API_KEY startScheduler schedules nothing: after any
\* number of calls no inventory-sync or order-pull task exists, no timer
\* ever invokes a job, and getSchedulerStatus reports running = false.
C26_NoKeyNoTasks ==
  ~scheduler.apiConfigured
  => /\ scheduler.tasks = << >>
     /\ scheduler.inventorySyncTask = 0 /\ scheduler.orderPullTask = 0
     /\ \A i \in 1 .. 2 * MaxStarts : ~ENABLED TimerFires(i, Caller)
     /\ \A p \in Procs : job[p].pc = "idle"
     /\ marketplace_sync_log = << >>
     /\ ~getSchedulerStatus(scheduler).running
     /\ ~getSchedulerStatus(scheduler).inventorySyncActive
     /\ ~getSchedulerStatus(scheduler).orderPullActive

C26_Witness ==
  /\ ~scheduler.apiConfigured
  /\ scheduler.calls = 2
  /\ ~getSchedulerStatus(scheduler).running

\* C27: stopScheduler brings the scheduler back to its initial state:
\* after it getSchedulerStatus reports running = false, inventorySyncActive
\* = false and orderPullActive = false, as before the first startScheduler,
\* also when the scheduler was started with the key.
C27_StopRestoresStatus ==
  [][StopScheduler
     => /\ ~getSchedulerStatus(scheduler').running
        /\ ~getSchedulerStatus(scheduler').inventorySyncActive
        /\ ~getSchedulerStatus(scheduler').orderPullActive]_vars

(***************************************************************************)
(* Properties of the accept and ship routes.                               *)
(***************************************************************************)
\* C28: the lifecycle of an order is accept, then ship: in every state of
\* marketplace_orders an order whose shipped_at is set has its accepted_at
\* set, and the ship route calls createShipment for no order that was not
\* accepted first.
C28_AcceptBeforeShip ==
  /\ \A i \in 1 .. Len(marketplace_orders) :
       marketplace_orders[i].shipped_at # NoDate
       => marketplace_orders[i].accepted_at # NoDate
  /\ \A p \in Procs :
       (job[p].handler = "shipRoute" /\ client[p].op = "createShipment"
        /\ job[p].id \in 1 .. Len(marketplace_orders))
       => marketplace_orders[job[p].id].accepted_at # NoDate

\* C29: bounded retry: for maxRetries >= 1 and every sequence of attempt
\* outcomes retryWithBackoff invokes the operation at least once and at
\* most maxRetries times; one counter counts the attempts whatever the
\* class of the failures; the delays are one fewer than the attempts, and
\* no delay follows the final attempt.
C29_BoundedRetry ==
  \A p \in Procs :
    LET c == client[p] IN
      (c.op \in {"retryWithBackoff", "fetchOrders"} /\ c.maxRetries >= 1 /\ c.pc # "idle")
      => /\ c.attempt = Len(c.tried)
         /\ c.attempt \in 1 .. c.maxRetries
         /\ c.pc = "backoff" => (Len(c.waits) = c.attempt /\ c.attempt < c.maxRetries)
         /\ c.pc \in {"inflight", "done", "pagedelay"} => Len(c.waits) = c.attempt - 1
         /\ \A i \in 1 .. c.attempt - 1 : Retryable(c.tried[i])

C29_Witness ==
  \E p \in Procs :
    /\ client[p].op = "retryWithBackoff" /\ client[p].pc = "done"
    /\ client[p].maxRetries = 3
    /\ client[p].tried = << 429, 500, 501 >>
    /\ Len(client[p].waits) = 2
    /\ client[p].outcome = "threw"

\* the request of p reads an order that is stored
ReadsOrder(p) == job[p].id \in 1 .. Len(marketplace_orders)

\* the answer to a repeated request: 400, or 500 when the read of the order
\* itself failed; no call of the remote, no change of the orders
Refused(p) ==
  /\ job'[p].pc = "done"
  /\ job'[p].httpStatus = IF faults' > faults THEN 500 ELSE 400
  /\ client' = client
  /\ marketplace_orders' = marketplace_orders
  /\ remoteOrders' = remoteOrders

\* C30: once an order is accepted (accepted_at set) every later accept
\* request for it is answered 400 with no call of the remote and no change
\* of the order row; the same for ship once shipped_at is set; a ship request
\* without trackingNumber or carrierCode is answered 400 before any read of
\* the storage and any call of the remote.  (A request whose read of the
\* order fails in the storage is answered 500, with no call and no change.)
C30_RepeatGuards ==
  [][\A p \in Procs :
       /\ (/\ job[p].handler = "acceptRoute" /\ job[p].pc = "acceptSelect"
           /\ ReadsOrder(p) /\ marketplace_orders[job[p].id].accepted_at # NoDate
           /\ job'[p] # job[p])
          => Refused(p)
       /\ (/\ job[p].handler = "shipRoute" /\ job[p].pc = "shipSelect"
           /\ ReadsOrder(p) /\ marketplace_orders[job[p].id].shipped_at # NoDate
           /\ job'[p] # job[p])
          => Refused(p)
       /\ (job[p].pc = "idle" /\ job'[p].handler = "shipRoute" /\ job'[p].pc = "done")
          => /\ job'[p].httpStatus = 400
             /\ faults' = faults /\ client' = client
             /\ marketplace_orders' = marketplace_orders]_vars

C30_Witness ==
  \E p \in Procs :
    /\ job[p].handler = "acceptRoute" /\ job[p].pc = "done" /\ job[p].httpStatus = 400
    /\ ReadsOrder(p)
    /\ marketplace_orders[job[p].id].accepted_at # NoDate
    /\ marketplace_orders[job[p].id].order_state = "WAITING_ACCEPTANCE"
    /\ client[p].pc = "idle"


(***************************************************************************)
(* Properties of the routes under failures of the remote.                  *)
(***************************************************************************)
\* the remote call of the running request of p has thrown
RemoteCallThrew(p, handler, op) ==
  /\ job[p].handler = handler
  /\ client[p].op = op /\ client[p].pc = "done" /\ client[p].outcome = "threw"

\* C31: when the remote acceptOrder call fails, the accept route leaves the
\* order row as it is (accepted_at still unset, order_state as before) and
\* answers 500; when the remote createShipment call fails, the ship route
\* leaves shipped_at and order_state as they are, inserts no shipment row
\* and answers 500.
C31_RemoteFailureLeavesState ==
  /\ [](\A p \in Procs :
          /\ RemoteCallThrew(p, "acceptRoute", "acceptOrder")
             => /\ job[p].pc \in {"accepting", "done"}
                /\ job[p].pc = "done" => job[p].httpStatus = 500
                /\ marketplace_orders[job[p].id].accepted_at = NoDate
          /\ RemoteCallThrew(p, "shipRoute", "createShipment")
             => /\ job[p].pc \in {"shipping", "done"}
                /\ job[p].pc = "done" => job[p].httpStatus = 500
                /\ marketplace_orders[job[p].id].shipped_at = NoDate)
  /\ [][\A p \in Procs :
          (job[p].handler \in {"acceptRoute", "shipRoute"}
           /\ (job[p].pc \in {"accepting", "shipping"}
               \/ (client[p].pc = "done" /\ client[p].outcome = "threw")))
          => /\ marketplace_orders' = marketplace_orders
             /\ marketplace_shipments' = marketplace_shipments]_vars

C31_Witness ==
  \E p \in Procs :
    /\ RemoteCallThrew(p, "shipRoute", "createShipment")
    /\ job[p].pc = "done" /\ job[p].httpStatus = 500
    /\ client[p].tried = << 500 >> /\ client[p].error.kind = "Mirakl server error"
    /\ marketplace_orders[job[p].id].order_state = "SHIPPING"
    /\ marketplace_orders[job[p].id].accepted_at # NoDate
    /\ marketplace_orders[job[p].id].shipped_at = NoDate
    /\ marketplace_shipments = << >>


(***************************************************************************)
(* Properties of the inventory sync.                                       *)
(***************************************************************************)
\* the syncOffers call of the running syncInventoryJob of p has thrown
SyncOffersThrew(p) ==
  /\ job[p].handler = "syncInventoryJob"
  /\ client[p].op = "syncOffers" /\ client[p].pc = "done"
  /\ client[p].outcome = "threw"
  /\ job[p].pc # "syncing"

\* a step of the handler that p runs
HandlerStep(p) == job'[p] # job[p] \/ client'[p] # client[p]

\* C32: syncInventoryJob never changes the price or the quantity of a
\* product; it sets last_synced_at only for the products it transmitted and
\* only after syncOffers has succeeded; when syncOffers fails the job
\* changes no product's last_synced_at and sends the UPDATE that closes its
\* sync-log entry as failed (the entry is failed once the database has
\* executed it).
C32_InventoryFrame ==
  /\ [][\A p \in Procs :
          (job[p].handler = "syncInventoryJob" /\ HandlerStep(p))
          => /\ Len(products') = Len(products)
             /\ \A i \in 1 .. Len(products) :
                  /\ products'[i].price = products[i].price
                  /\ products'[i].quantity = products[i].quantity
                  /\ products'[i].mirakl_sku = products[i].mirakl_sku
                  /\ products'[i].last_synced_at # products[i].last_synced_at
                     => /\ job[p].pc = "markSynced"
                        /\ client[p].op = "syncOffers" /\ client[p].outcome = "returned"
                        /\ products[i].id \in ProductIds(job[p].products)
             /\ SyncOffersThrew(p) =>
                  /\ products' = products
                  /\ (job[p].pc = "closeFailed" /\ faults' = faults)
                     => marketplace_sync_log'[job[p].syncLogId].status = "failed"]_vars
  /\ [](\A p \in Procs :
          SyncOffersThrew(p)
          => /\ job[p].pc \in {"closeFailed", "done"}
             /\ job[p].success # "true"
             /\ marketplace_sync_log[job[p].syncLogId].status \in {"running", "failed"})

C32_Witness ==
  \E p \in Procs :
    /\ SyncOffersThrew(p) /\ job[p].pc = "done" /\ job[p].success = "false"
    /\ Len(job[p].products) = 2
    /\ marketplace_sync_log[job[p].syncLogId].status = "failed"
    /\ \A i \in 1 .. Len(products) :
         products[i].mirakl_sku = "sku" /\ products[i].last_synced_at = NoDate


(***************************************************************************)
(* Properties of the ingestion next to the local actions.                  *)
(***************************************************************************)
\* the upsert of the order at hand of the ingestion of p is executed
UpsertExecuted(p) ==
  /\ job[p].pc \in {"upsert", "routeUpsert"}
  /\ job'[p].upserted = job[p].upserted + 1

\* C33: the upsert overwrites order_state with the value of the remote,
\* whatever the row holds: a re-ingestion after a successful local accept,
\* the remote still reporting WAITING_ACCEPTANCE for the order, leaves the
\* row with order_state WAITING_ACCEPTANCE and its accepted_at set; the
\* SHIPPING that the accept wrote is overwritten.
C33_UpsertOverwritesState ==
  [][\A p \in Procs :
       UpsertExecuted(p) =>
         LET order == client[p].returned[job[p].idx] IN
         \A i \in 1 .. Len(marketplace_orders) :
           marketplace_orders[i].mirakl_order_id = order.order_id
           => /\ marketplace_orders'[i].order_state = order.order_state
              /\ marketplace_orders'[i].accepted_at = marketplace_orders[i].accepted_at
              /\ marketplace_orders'[i].shipped_at = marketplace_orders[i].shipped_at
              /\ (/\ marketplace_orders[i].accepted_at # NoDate
                  /\ order.order_state = "WAITING_ACCEPTANCE")
                 => /\ marketplace_orders'[i].order_state = "WAITING_ACCEPTANCE"
                    /\ marketplace_orders'[i].accepted_at # NoDate]_vars

C33_Witness ==
  \E p \in Procs :
    /\ job[p].handler = "pullOrdersJob" /\ job[p].pc = "closeSuccess"
    /\ job[p].updatedCount = 1 /\ job[p].upserted = 1
    /\ client[p].returned[1].order_state = "WAITING_ACCEPTANCE"
    /\ marketplace_orders[1].mirakl_order_id = client[p].returned[1].order_id
    /\ marketplace_orders[1].order_state = "WAITING_ACCEPTANCE"
    /\ marketplace_orders[1].accepted_at # NoDate
    /\ marketplace_orders[1].shipped_at = NoDate


(***************************************************************************)
(* Properties of the watermark against a marketplace that updates orders.  *)
(***************************************************************************)
\* the stored row of the order does not hold the state the marketplace has
\* given it: an update that no run has stored yet
UpdateNotStored(order) ==
  \E i \in 1 .. Len(marketplace_orders) :
    /\ marketplace_orders[i].mirakl_order_id = order.order_id
    /\ marketplace_orders[i].order_state # order.order_state

\* C34: no update of the marketplace is skipped between two successful runs:
\* an order that the marketplace updates after the fetch of run k has read
\* it, and before the completion time run k writes, is returned by the
\* fetch of run k+1.  With a storage that executes every query: when the
\* fetch of a run returns, every open order whose update is not stored is
\* among the orders returned.
C34_NoUpdateSkipped ==
  [][\A p \in Procs :
       (/\ faults = 0
        /\ job[p].handler = "pullOrdersJob" /\ job[p].pc = "fetching"
        /\ client[p].pc = "inflight" /\ client'[p].pc = "done"
        /\ client'[p].outcome = "returned")
       => \A i \in 1 .. Len(remoteOrders) :
            (remoteOrders[i].order_state \in OpenStates /\ UpdateNotStored(remoteOrders[i]))
            => \E k \in 1 .. Len(client'[p].returned) :
                 client'[p].returned[k] = remoteOrders[i]]_vars


(***************************************************************************)
(* Properties of overlapping ingestion runs.                               *)
(***************************************************************************)
\* the run of p has finished and has stored the one order it fetched
StoredItsFetch(p) ==
  /\ job[p].handler = "pullOrdersJob" /\ job[p].pc = "done" /\ job[p].success = "true"
  /\ Len(client[p].returned) = 1 /\ job[p].upserted = 1

\* the marketplace moves an order on from WAITING_ACCEPTANCE and never
\* back: of two snapshots of an order that differ, the one still in
\* WAITING_ACCEPTANCE is the older
Older(a, b) == a.order_state = "WAITING_ACCEPTANCE" /\ b.order_state # "WAITING_ACCEPTANCE"

\* C35: when two ingestion runs overlap, after both have finished every
\* stored order holds the state from the later of the two fetches: the run
\* that fetched the older snapshot of an order does not overwrite the newer
\* state the other run wrote.
C35_LaterFetchWins ==
  \A p, q \in Procs :
    (/\ p # q /\ StoredItsFetch(p) /\ StoredItsFetch(q)
     /\ client[p].returned[1].order_id = client[q].returned[1].order_id
     /\ Older(client[p].returned[1], client[q].returned[1]))
    => \A i \in 1 .. Len(marketplace_orders) :
         marketplace_orders[i].mirakl_order_id = client[q].returned[1].order_id
         => marketplace_orders[i].order_state = client[q].returned[1].order_state


(***************************************************************************)
(* Properties of concurrent requests for one order.                        *)
(***************************************************************************)
\* the request of p has called the remote operation and the call succeeded
Called(p, handler, op) ==
  /\ job[p].handler = handler
  /\ client[p].op = op /\ client[p].outcome = "returned"

\* the request of p was answered with success
Succeeded(p, handler) ==
  job[p].handler = handler /\ job[p].pc = "done" /\ job[p].httpStatus = Ok

ShipmentsOf(id) ==
  { i \in 1 .. Len(marketplace_shipments) : marketplace_shipments[i].marketplace_order_id = id }

\* C36: for every interleaving of concurrent accept requests for one order
\* the remote acceptOrder call is made at most once for it and at most one
\* request is answered with success; for concurrent ship requests the
\* remote createShipment call is made at most once and at most one
\* shipment row is inserted.
C36_AtMostOnce ==
  /\ \A p, q \in Procs :
       (p # q /\ job[p].id = job[q].id)
       => /\ ~(Called(p, "acceptRoute", "acceptOrder") /\ Called(q, "acceptRoute", "acceptOrder"))
          /\ ~(Succeeded(p, "acceptRoute") /\ Succeeded(q, "acceptRoute"))
          /\ ~(Called(p, "shipRoute", "createShipment") /\ Called(q, "shipRoute", "createShipment"))
  /\ \A id \in 1 .. Len(marketplace_orders) : Cardinality(ShipmentsOf(id)) <= 1


(***************************************************************************)
(* Properties of the two ingestion cycles.                                 *)
(***************************************************************************)
\* the upsert of the order at hand of the ingestion of p fails
UpsertFails(p) ==
  /\ job[p].handler \in {"pullOrdersJob", "pullOrdersRoute"}
  /\ job[p].pc \in {"upsert", "routeUpsert"}
  /\ job'[p] # job[p] /\ faults' > faults

\* C37: GET /pull-orders and pullOrdersJob are equivalent ingestion cycles:
\* for the same answers of the remote and the same behaviour of the storage
\* both leave the same rows and close their sync-log entry with the same
\* status and records_processed.  A failing upsert of one order is the case
\* that tells: in either cycle it leaves the table as it is and the cycle
\* goes on as pullOrdersJob does, to the next order or, after the last one,
\* to the closing of the entry as success with the orders stored counted.
C37_RouteEquivalentToJob ==
  [][\A p \in Procs :
       /\ UpsertFails(p)
          => /\ job'[p] = OrderCatch(job[p], client[p].returned)
             /\ marketplace_orders' = marketplace_orders
       /\ (/\ job[p].handler \in {"pullOrdersJob", "pullOrdersRoute"}
           /\ job[p].pc = "closeSuccess" /\ job'[p].pc = "done" /\ faults' = faults)
          => /\ marketplace_sync_log'[job[p].syncLogId].status = "success"
             /\ marketplace_sync_log'[job[p].syncLogId].records_processed = job[p].upserted
             /\ job[p].idx = Len(client[p].returned)]_vars


\* C38: after any sequence of startScheduler and stopScheduler calls that
\* ends with stopScheduler no scheduled task remains active and no timer
\* triggers a job any more, also when startScheduler was called more than
\* once before the stop.
C38_StopStopsEveryTask ==
  [][StopScheduler
     => \A i \in 1 .. Len(scheduler'.tasks) : ~scheduler'.tasks[i].running]_vars


(***************************************************************************)
(* Properties of the sync-log entry of a finished invocation.              *)
(***************************************************************************)
\* C39: no sync-log entry stays running after its job invocation has
\* returned: the entry that pullOrdersJob or syncInventoryJob opened is in
\* status success or failed when the invocation resolves, whatever failure
\* of the remote or of the storage ended the run, and the success flag the
\* job returns matches the final status of the entry.
C39_NoEntryStaysRunning ==
  \A p \in Procs :
    (/\ job[p].handler \in {"pullOrdersJob", "syncInventoryJob"}
     /\ job[p].pc = "done" /\ job[p].syncLogId # 0)
    => /\ marketplace_sync_log[job[p].syncLogId].status # "running"
       /\ job[p].success = "true"
          <=> marketplace_sync_log[job[p].syncLogId].status = "success"


(***************************************************************************)
(* Properties of the termination of fetchOrders.                           *)
(***************************************************************************)
\* the largest total count the remote of the model reports
TotalBound == Len(remoteOrders) + maxPerPage

\* the attempts of the page at hand that failed
FailedAttempts(c) == { i \in 1 .. Len(c.tried) : Failed(c.tried[i]) }

\* C40: fetchOrders terminates for every behaviour of the remote whose
\* reported total counts are bounded by T: it makes at most
\* max(1, ceil(T/100)) successful page requests (a further page is asked
\* for only while the pages received are fewer than ceil(total/100) of the
\* total just reported), each preceded by at most maxRetries - 1 failed
\* attempts, and a response without a total count, taken as 0, ends the
\* pagination after that page; every call ends.
C40_FetchOrdersTerminates ==
  /\ [](\A p \in Procs :
          LET c == client[p] IN
          c.op = "fetchOrders"
          => /\ Len(c.received) <= Max(1, CeilDiv(TotalBound, maxPerPage))
             /\ c.pc = "pagedelay"
                => /\ c.totalCount > 0
                   /\ Len(c.received) < CeilDiv(c.totalCount, maxPerPage)
             /\ Len(c.tried) <= c.maxRetries
             /\ (c.tried # << >> /\ LastTried(c) = Ok)
                => Cardinality(FailedAttempts(c)) <= c.maxRetries - 1
             /\ Len(c.requested) <= c.maxRetries * (Len(c.received) + 1))
  /\ [][\A p \in Procs :
          (/\ client[p].op = "fetchOrders" /\ client[p].pc = "inflight"
           /\ client'[p].pc # "inflight" /\ LastTried(client'[p]) = Ok
           /\ client'[p].totalCount = 0)
          => /\ client'[p].pc = "done" /\ client'[p].outcome = "returned"
             /\ Len(client'[p].requested) = Len(client[p].requested)]_vars
  /\ (client[Caller].op = "fetchOrders") ~> (client[Caller].pc = "done")

C40_Witness ==
  \E p \in Procs :
    /\ client[p].op = "fetchOrders" /\ client[p].pc = "done"
    /\ client[p].outcome = "returned"
    /\ client[p].received = << 100, 100 >>
    /\ client[p].totalCount = 0
    /\ client[p].tried = << 500, 429, Ok >>
    /\ Len(client[p].requested) = 4
    /\ Len(remoteOrders) = 201
====
